---- MODULE Spec2Model ----
(***************************************************************************)
(* A model of the light-node core of rust-cardano:                         *)
(*   - the epoch synchronisation engine of the wallet-cli                  *)
(*     (net_sync_fast, find_earliest_epoch, download_epoch,                *)
(*     get_last_blockid) against an untrusted peer            (Spec)       *)
(*   - the epoch boundary scan of download_epoch as a pure function        *)
(*                                                            (SpecScan)   *)
(*   - the CBOR sum-type decoders of the blockchain and protocol crates    *)
(*                                                            (SpecDecode) *)
(*   - encode after decode, and the request constructors                   *)
(*                                              (SpecRoundTrip, SpecSend)  *)
(*   - download_epoch against a peer that serves a valid chain (SpecLive)  *)
(*   - find_earliest_epoch, one round of its loop at a time    (SpecFind)  *)
(*   - the bip44 sequential addressing of wallet-crypto        (SpecBip44) *)
(* Indices of header batches are the code's 0-based indices; a TLA+        *)
(* sequence is 1-based, so the code's v[i] is v[i + 1] here.               *)
(***************************************************************************)
EXTENDS Integers, Sequences, FiniteSets, TLC

VARIABLES
    \* ---- storage (survives an invocation)
    tags,                 \* epoch tag -> pack it names (tag::write / tag::read_hash)
    packs,                \* packs whose index was made permanent
    head_tag,             \* the HEAD tag: {} or {hash}
    \* ---- net_sync_fast
    pc,                   \* position of the running invocation
    network_tip,          \* hash of the tip header the peer reported
    tip_epoch,            \* network_slotid.epoch
    download_epoch_id,
    download_start_hash,
    \* ---- download_epoch
    x_start_hash,
    start_hash,
    found_epoch_boundary, \* Option<HeaderHash>: {} or {hash}
    writer,               \* the open pack writer: raw blocks appended so far
    previous_headerhash,
    expected_slotid,
    req_range,            \* the GetBlock request in flight: <<from, to>>
    blocks_raw,           \* blocks of the reply not yet processed
    \* ---- history of the run (read by the properties only)
    calls,                \* download_epoch calls of this invocation
    returned,             \* epoch -> boundary hash its download_epoch returned
    tags0,                \* the tags when this invocation started
    written,              \* epochs whose tag this invocation wrote
    resumed,              \* this invocation found a committed epoch
    last,                 \* the last block the append loop looked at
    \* ---- the scan as a pure function
    scan_hdrs, scan_epoch, scan_out,
    \* ---- the decoders as pure functions
    dec_ty, dec_in, dec_out

storeVars == <<tags, packs, head_tag>>
syncVars  == <<pc, network_tip, tip_epoch, download_epoch_id, download_start_hash>>
epochVars == <<x_start_hash, start_hash, found_epoch_boundary, writer,
               previous_headerhash, expected_slotid, req_range, blocks_raw>>
histVars  == <<calls, returned, tags0, written, resumed, last>>
scanVars  == <<scan_hdrs, scan_epoch, scan_out>>
decVars   == <<dec_ty, dec_in, dec_out>>
vars == <<storeVars, syncVars, epochVars, histVars, scanVars, decVars>>

----------------------------------------------------------------------------
\* Bounds of the model

\* longest header batch the peer returns in Spec
MaxHeaders == 2
\* longest block batch the peer returns in Spec
MaxBlocks == 2
\* longest header batch of SpecScan
MaxScanLen == 5
\* the largest u32 (2^32 - 1 in the code), scaled down
U32Max == 7

\* net_cfg.epoch_start and net_cfg.genesis of the network configuration
EpochStart == 0
GenesisHash == 0

None == {}
Some(x) == {x}
TheOne(s) == CHOOSE x \in s : TRUE

BoundedSeq(S, n) == UNION {[1..k -> S] : k \in 0..n}

----------------------------------------------------------------------------
\* Headers and their hashes

Hdr(p, e, s) == [prev |-> p, epoch |-> e, slotid |-> s]

\* The headers that exist.  1..9 are what the peer of Spec may serve: the
\* chain 1 <- 2 <- 3 (epoch 0) <- 4 (first block of epoch 1) <- 5 <- 6
\* (first block of epoch 2), and three blocks off that chain.  10..14 are the
\* synthetic headers of SpecScan.
HeaderOf ==
    << Hdr(GenesisHash, 0, 0),
       Hdr(1, 0, 1),
       Hdr(2, 0, 3),
       Hdr(3, 1, 0),
       Hdr(4, 1, 0),
       Hdr(5, 2, 0),
       Hdr(GenesisHash, 0, U32Max),
       Hdr(2, 0, 2),
       Hdr(1, 1, 0),
       Hdr(0, 4, 0),
       Hdr(0, 5, 0),
       Hdr(0, 5, 1),
       Hdr(0, 6, 0),
       Hdr(0, 6, 1) >>

PeerHeaders == {HeaderOf[i] : i \in 1..9}
ScanHeaders == {HeaderOf[i] : i \in 10..14}

\* compute_hash: a digest of the header's content, without collisions
compute_hash(h) == CHOOSE i \in DOMAIN HeaderOf : HeaderOf[i] = h

\* a raw block as the peer sends it: bytes that decode to a block with
\* header hdr (ok), or that do not decode
Raw(h, k) == [hdr |-> h, ok |-> k]
Garbage == Raw(HeaderOf[1], FALSE)
PeerBlocks == {Raw(h, TRUE) : h \in PeerHeaders} \cup {Garbage}

\* block_raw.decode(): Some(header of the block) or None
BlockDecode(raw) == IF raw.ok THEN Some(raw.hdr) ELSE None

HeaderBatches == BoundedSeq(PeerHeaders, MaxHeaders)
BlockBatches == BoundedSeq(PeerBlocks, MaxBlocks)

----------------------------------------------------------------------------
\* The epoch boundary scan of download_epoch (lines 81-106)

RECURSIVE ScanStart(_, _, _, _)
ScanStart(hdrs, epoch_id, start, end) ==
    IF end >= start /\ hdrs[start + 1].epoch > epoch_id
    THEN ScanStart(hdrs, epoch_id, start + 1, end)
    ELSE start

RECURSIVE ScanEndFlipped(_, _, _, _)
ScanEndFlipped(hdrs, epoch_id, start, end) ==
    IF end > start /\ hdrs[end + 1].epoch > epoch_id
    THEN ScanEndFlipped(hdrs, epoch_id, start, end - 1)
    ELSE end

RECURSIVE ScanEnd(_, _, _, _)
ScanEnd(hdrs, epoch_id, start, end) ==
    IF end > start /\ hdrs[end + 1].epoch < epoch_id
    THEN ScanEnd(hdrs, epoch_id, start, end - 1)
    ELSE end

\* the scan with the boundary taken at start, not at start - 1
ScanBoundaryAtStart(hdrs, epoch_id) ==
    IF Len(hdrs) = 0
    THEN [status |-> "panic", start |-> 0, end |-> 0, boundary |-> None]
    ELSE IF hdrs[1].epoch < epoch_id
    THEN [status |-> "skip", start |-> 0, end |-> Len(hdrs) - 1, boundary |-> None]
    ELSE LET s == ScanStart(hdrs, epoch_id, 0, Len(hdrs) - 1)
             e == ScanEnd(hdrs, epoch_id, s, Len(hdrs) - 1)
             b == IF s > 0 /\ s < Len(hdrs)
                  THEN Some(compute_hash(hdrs[s + 1])) ELSE None
         IN  [status |-> IF s >= Len(hdrs) THEN "panic" ELSE "ok",
              start |-> s, end |-> e, boundary |-> b]

\* the scan without the fast skip of lines 88-92
ScanNoSkip(hdrs, epoch_id) ==
    IF Len(hdrs) = 0
    THEN [status |-> "panic", start |-> 0, end |-> 0, boundary |-> None]
    ELSE LET s == ScanStart(hdrs, epoch_id, 0, Len(hdrs) - 1)
             e == ScanEnd(hdrs, epoch_id, s, Len(hdrs) - 1)
             b == IF s > 0 THEN Some(compute_hash(hdrs[s])) ELSE None
         IN  [status |-> IF s >= Len(hdrs) THEN "panic" ELSE "ok",
              start |-> s, end |-> e, boundary |-> b]

\* status: "panic" (len() - 1 of an empty batch, or an index past the batch),
\* "skip" (fast skip) or "ok"
Scan(hdrs, epoch_id) ==
    IF Len(hdrs) = 0
    THEN [status |-> "panic", start |-> 0, end |-> 0, boundary |-> None]
    ELSE IF hdrs[1].epoch < epoch_id
    THEN [status |-> "skip", start |-> 0, end |-> Len(hdrs) - 1, boundary |-> None]
    ELSE LET s == ScanStart(hdrs, epoch_id, 0, Len(hdrs) - 1)
             e == ScanEnd(hdrs, epoch_id, s, Len(hdrs) - 1)
             b == IF s > 0 THEN Some(compute_hash(hdrs[s])) ELSE None
         IN  [status |-> IF s >= Len(hdrs) THEN "panic" ELSE "ok",
              start |-> s, end |-> e, boundary |-> b]

----------------------------------------------------------------------------
\* Storage

\* tag::read_hash(storage, get_epoch_tag(e)): Some(pack) or None
ReadEpochTag(tg, e) == IF e \in DOMAIN tg THEN Some(tg[e]) ELSE None

\* tag::write(storage, get_epoch_tag(e), packhash): creates or overwrites
WriteEpochTag(tg, e, pack) ==
    [x \in DOMAIN tg \cup {e} |-> IF x = e THEN pack ELSE tg[x]]

find_earliest_epoch_none(tg, minimum_epochid, epoch_id) == None

\* find_earliest_epoch: Some(<<epoch, pack>>) or None
RECURSIVE find_earliest_epoch(_, _, _)
find_earliest_epoch(tg, minimum_epochid, epoch_id) ==
    IF ReadEpochTag(tg, epoch_id) # None
    THEN Some(<<epoch_id, TheOne(ReadEpochTag(tg, epoch_id))>>)
    ELSE IF epoch_id > minimum_epochid
         THEN find_earliest_epoch(tg, minimum_epochid, epoch_id - 1)
         ELSE None

\* get_last_blockid: the hash of the last block of the pack, None for an
\* empty pack
get_last_blockid(pack) ==
    IF Len(pack) = 0 THEN None
    ELSE Some(compute_hash(TheOne(BlockDecode(pack[Len(pack)]))))

----------------------------------------------------------------------------
\* net_sync_fast

NoLast == [seen |-> FALSE, blk |-> Garbage, epoch_id |-> 0, prev_before |-> 0,
           exp_before |-> 0, exp_after |-> 0, len_before |-> 0,
           appended |-> FALSE]

\* download_epoch's locals outside a call
EpochIdle ==
    /\ x_start_hash' = GenesisHash
    /\ start_hash' = GenesisHash
    /\ found_epoch_boundary' = None
    /\ writer' = <<>>
    /\ previous_headerhash' = GenesisHash
    /\ expected_slotid' = 0
    /\ req_range' = <<>>
    /\ blocks_raw' = <<>>

SyncLoopCondInclusive(id, tip) == id <= tip

\* the loop condition of net_sync_fast (line 213)
SyncLoopCond(id, tip) == id < tip

\* lines 180-212: a fresh invocation, on the storage the earlier ones left
SyncStart ==
    /\ pc \in {"idle", "done", "aborted"}
    /\ EpochIdle
    /\ calls' = <<>>
    /\ tags0' = tags
    /\ written' = {}
    /\ last' = NoLast
    /\ UNCHANGED <<tags, packs, returned, scanVars, decVars>>
    /\ \/ \* the tip request fails, or returns other than one header
          /\ pc' = "aborted"
          /\ resumed' = FALSE
          /\ UNCHANGED <<head_tag, network_tip, tip_epoch, download_epoch_id,
                         download_start_hash>>
       \/ \E mbh \in PeerHeaders :
            LET found == find_earliest_epoch(tags, EpochStart, mbh.epoch)
                lastid == IF found = None THEN None
                          ELSE get_last_blockid(TheOne(found)[2])
            IN  /\ head_tag' = Some(mbh.prev)
                /\ network_tip' = compute_hash(mbh)
                /\ tip_epoch' = mbh.epoch
                /\ resumed' = (found # None)
                /\ IF found = None
                   THEN /\ download_epoch_id' = EpochStart
                        /\ download_start_hash' = GenesisHash
                        /\ pc' = "sync_loop"
                   ELSE IF lastid = None
                   THEN \* get_last_blockid(..).unwrap() of an empty pack
                        /\ pc' = "aborted"
                        /\ UNCHANGED <<download_epoch_id, download_start_hash>>
                   ELSE /\ download_epoch_id' = TheOne(found)[1] + 1
                        /\ download_start_hash' = TheOne(lastid)
                        /\ pc' = "sync_loop"

\* lines 213-215 and 67-72: the loop test, and the call of download_epoch
SyncLoop ==
    /\ pc = "sync_loop"
    /\ UNCHANGED <<storeVars, network_tip, tip_epoch, download_epoch_id,
                   download_start_hash, returned, tags0, written, resumed,
                   last, scanVars, decVars>>
    /\ IF SyncLoopCond(download_epoch_id, tip_epoch)
       THEN /\ pc' = "headers"
            /\ x_start_hash' = download_start_hash
            /\ start_hash' = download_start_hash
            /\ found_epoch_boundary' = None
            /\ writer' = <<>>
            /\ previous_headerhash' = download_start_hash
            /\ expected_slotid' = 0
            /\ req_range' = <<>>
            /\ blocks_raw' = <<>>
            /\ calls' = Append(calls, [epoch |-> download_epoch_id,
                                       start |-> download_start_hash,
                                       ret |-> None])
       ELSE /\ pc' = "done"
            /\ UNCHANGED <<epochVars, calls>>

----------------------------------------------------------------------------
\* download_epoch

FirstBlockUnchecked(first_prev, prev_hh) == TRUE

\* line 108: the header at end continues the accepted chain
FirstBlockMatches(first_prev, prev_hh) == first_prev = prev_hh

\* lines 81-117: what one iteration does with the batch the peer returned
GetHeadersReply(block_headers) ==
    LET s == Scan(block_headers, download_epoch_id) IN
    IF s.status = "panic"
    THEN /\ pc' = "aborted"
         /\ found_epoch_boundary' = s.boundary
         /\ UNCHANGED <<start_hash, req_range>>
    ELSE IF s.status = "skip"
    THEN /\ pc' = "headers"
         /\ start_hash' = compute_hash(block_headers[s.start + 1])
         /\ UNCHANGED <<found_epoch_boundary, req_range>>
    ELSE LET latest_block == block_headers[s.start + 1]
             first_block == block_headers[s.end + 1]
         IN  /\ found_epoch_boundary' = s.boundary
             /\ UNCHANGED start_hash
             /\ IF FirstBlockMatches(first_block.prev, previous_headerhash)
                THEN /\ pc' = "blocks"
                     /\ req_range' = <<compute_hash(first_block),
                                       compute_hash(latest_block)>>
                ELSE /\ pc' = "aborted"
                     /\ UNCHANGED req_range

\* lines 74-114: the header request, the scan and the continuity check of
\* the oldest header kept
GetHeaders ==
    /\ pc = "headers"
    /\ UNCHANGED <<storeVars, network_tip, tip_epoch, download_epoch_id,
                   download_start_hash, x_start_hash, writer,
                   previous_headerhash, expected_slotid, blocks_raw,
                   histVars, scanVars, decVars>>
    /\ \/ \* the request fails: expect() panics
          /\ pc' = "aborted"
          /\ UNCHANGED <<start_hash, found_epoch_boundary, req_range>>
       \/ \E block_headers \in HeaderBatches : GetHeadersReply(block_headers)

\* lines 116-121: the block request
GetBlocks ==
    /\ pc = "blocks"
    /\ UNCHANGED <<storeVars, network_tip, tip_epoch, download_epoch_id,
                   download_start_hash, x_start_hash, start_hash,
                   found_epoch_boundary, writer, previous_headerhash,
                   expected_slotid, histVars, scanVars, decVars>>
    /\ \/ \* the request fails: expect() panics
          /\ pc' = "aborted"
          /\ UNCHANGED <<req_range, blocks_raw>>
       \/ \E reply \in BlockBatches :
            /\ pc' = "append"
            /\ req_range' = <<>>
            /\ blocks_raw' = reply

EpochUnchecked(slot_epoch, epoch_id) == TRUE

\* line 130
EpochMatches(slot_epoch, epoch_id) == slot_epoch = epoch_id

PrevUnchecked(prev_hh, block_previous_header) == TRUE

\* line 134
PrevMatches(prev_hh, block_previous_header) == prev_hh = block_previous_header

\* lines 144-149, before the width of u32 is applied
NextExpectedSlot(slotid, expected) ==
    IF slotid = expected THEN expected + 1 ELSE slotid + 1

\* lines 123-153: one round of the loop over the blocks of the reply
ProcessBlock ==
    /\ pc = "append"
    /\ blocks_raw # <<>>
    /\ UNCHANGED <<storeVars, network_tip, tip_epoch, download_epoch_id,
                   download_start_hash, x_start_hash, start_hash,
                   found_epoch_boundary, req_range, calls, returned, tags0,
                   written, resumed, scanVars, decVars>>
    /\ LET block_raw == Head(blocks_raw)
           block == BlockDecode(block_raw)
           hdr == TheOne(block)
           next == NextExpectedSlot(hdr.slotid, expected_slotid)
           seen(app, exp) == [seen |-> TRUE, blk |-> block_raw,
                              epoch_id |-> download_epoch_id,
                              prev_before |-> previous_headerhash,
                              exp_before |-> expected_slotid,
                              exp_after |-> exp,
                              len_before |-> Len(writer), appended |-> app]
           panic == /\ pc' = "aborted"
                    /\ last' = seen(FALSE, expected_slotid)
                    /\ UNCHANGED <<writer, previous_headerhash,
                                   expected_slotid, blocks_raw>>
           append(slot) == /\ pc' = "append"
                           /\ last' = seen(TRUE, slot)
                           /\ expected_slotid' = slot
                           /\ writer' = Append(writer, block_raw)
                           /\ previous_headerhash' = compute_hash(hdr)
                           /\ blocks_raw' = Tail(blocks_raw)
       IN  IF block = None THEN panic
           ELSE IF ~EpochMatches(hdr.epoch, download_epoch_id) THEN panic
           ELSE IF ~PrevMatches(previous_headerhash, hdr.prev) THEN panic
           ELSE IF next > U32Max
           THEN \* u32 overflow: a panic where overflow is checked, a wrap
                \* to 0 where it is not
                \/ panic
                \/ append(next % (U32Max + 1))
           ELSE append(next)

AfterBatchAlwaysCommit(found) == "commit"

\* lines 163-176: where the loop goes after the blocks of a batch
AfterBatch(found) == IF found = None THEN "headers" ELSE "commit"

\* lines 155-166: the end of the loop over the blocks
EndBlocks ==
    /\ pc = "append"
    /\ blocks_raw = <<>>
    /\ start_hash' = previous_headerhash
    /\ pc' = AfterBatch(found_epoch_boundary)
    /\ UNCHANGED <<storeVars, network_tip, tip_epoch, download_epoch_id,
                   download_start_hash, x_start_hash, found_epoch_boundary,
                   writer, previous_headerhash, expected_slotid, req_range,
                   blocks_raw, histVars, scanVars, decVars>>

\* lines 168-170: finalize the pack, create its index, make it permanent
CommitPack ==
    /\ pc = "commit"
    /\ UNCHANGED <<tags, head_tag, network_tip, tip_epoch, download_epoch_id,
                   download_start_hash, epochVars, histVars, scanVars,
                   decVars>>
    /\ \/ \* render_permanent(..).unwrap() fails
          /\ pc' = "aborted"
          /\ UNCHANGED packs
       \/ /\ pc' = "tag"
          /\ packs' = packs \cup {writer}

\* lines 173-174 and 215-216: write the tag, return the boundary
WriteTag ==
    /\ pc = "tag"
    /\ tags' = WriteEpochTag(tags, download_epoch_id, writer)
    /\ written' = written \cup {download_epoch_id}
    /\ returned' = [e \in DOMAIN returned \cup {download_epoch_id} |->
                      IF e = download_epoch_id
                      THEN TheOne(found_epoch_boundary) ELSE returned[e]]
    /\ calls' = [calls EXCEPT ![Len(calls)].ret = found_epoch_boundary]
    /\ download_start_hash' = TheOne(found_epoch_boundary)
    /\ download_epoch_id' = download_epoch_id + 1
    /\ pc' = "sync_loop"
    /\ EpochIdle
    /\ UNCHANGED <<packs, head_tag, network_tip, tip_epoch, tags0, resumed,
                   last, scanVars, decVars>>

----------------------------------------------------------------------------
\* The specification of the synchronisation engine

ScanIdle == [status |-> "idle", start |-> 0, end |-> 0, boundary |-> None]

InitScanIdle ==
    /\ scan_hdrs = <<>>
    /\ scan_epoch = 0
    /\ scan_out = ScanIdle

InitDecIdle ==
    /\ dec_ty = "none"
    /\ dec_in = <<>>
    /\ dec_out = <<>>

InitSyncIdle ==
    /\ tags = <<>>
    /\ packs = {}
    /\ head_tag = None
    /\ pc = "idle"
    /\ network_tip = GenesisHash
    /\ tip_epoch = 0
    /\ download_epoch_id = EpochStart
    /\ download_start_hash = GenesisHash
    /\ x_start_hash = GenesisHash
    /\ start_hash = GenesisHash
    /\ found_epoch_boundary = None
    /\ writer = <<>>
    /\ previous_headerhash = GenesisHash
    /\ expected_slotid = 0
    /\ req_range = <<>>
    /\ blocks_raw = <<>>
    /\ calls = <<>>
    /\ returned = <<>>
    /\ tags0 = <<>>
    /\ written = {}
    /\ resumed = FALSE
    /\ last = NoLast

Init == InitSyncIdle /\ InitScanIdle /\ InitDecIdle

Next ==
    \/ SyncStart
    \/ SyncLoop
    \/ GetHeaders
    \/ GetBlocks
    \/ ProcessBlock
    \/ EndBlocks
    \/ CommitPack
    \/ WriteTag

Spec == Init /\ [][Next]_vars

----------------------------------------------------------------------------
\* The scan as a pure function

ScanTargets == {4, 5, 6}

InitScan ==
    /\ InitSyncIdle
    /\ InitDecIdle
    /\ scan_hdrs \in BoundedSeq(ScanHeaders, MaxScanLen)
    /\ scan_epoch \in ScanTargets
    /\ scan_out = ScanIdle

DoScan ==
    /\ scan_out.status = "idle"
    /\ scan_out' = Scan(scan_hdrs, scan_epoch)
    /\ UNCHANGED <<storeVars, syncVars, epochVars, histVars, scan_hdrs,
                   scan_epoch, decVars>>

NextScan == DoScan

SpecScan == InitScan /\ [][NextScan]_vars

----------------------------------------------------------------------------
\* The CBOR value tree and the decode contract (wallet_crypto::cbor)

VU64(n) == <<"U64", n>>
\* a byte string of len bytes, each of them fill
VBytes(len, fill) == <<"Bytes", len, fill>>
VText(id) == <<"Text", id>>
VArray(elems) == <<"Array", elems>>
VIArray(elems) == <<"IArray", elems>>
VObject(elems) == <<"Object", elems>>

\* cbor::Result: Ok(value) or Err(error), with the contexts embed() added;
\* Panic is no result: the decoder did not return
Ok(x) == <<"Ok", x>>
Err(kind, arg) == <<"Err", kind, arg, <<>>>>
Panic(kind) == <<"Panic", kind, 0, <<>>>>
IsOk(r) == r[1] = "Ok"
IsErr(r, kind, arg) == r[1] = "Err" /\ r[2] = kind /\ r[3] = arg

\* ExtendedResult::embed: the error is kept, the context is added to it
Embed(ctx, r) ==
    IF r[1] = "Err" THEN <<"Err", r[2], r[3], Append(r[4], ctx)>> ELSE r

\* Value::array, Value::iarray, Value::bytes, Value::u64
AsArray(v) == IF v[1] = "Array" THEN Ok(v[2]) ELSE Err("NotArray", 0)
AsIArray(v) == IF v[1] = "IArray" THEN Ok(v[2]) ELSE Err("NotIArray", 0)
AsBytes(v) == IF v[1] = "Bytes" THEN Ok(v) ELSE Err("NotBytes", 0)
AsU64(v) == IF v[1] = "U64" THEN Ok(v[2]) ELSE Err("NotU64", 0)

HASH_SIZE == 32
XPUB_SIZE == 64
SIGNATURE_SIZE == 64

RECURSIVE Decode(_, _)

\* cbor::array_decode_elem(array, 0): decode the first element as a ty and
\* take it off the array: Ok(<<rest, decoded>>)
ArrayDecodeElem(ty, array) ==
    IF Len(array) = 0 THEN Err("ArrayElementMissing", 0)
    ELSE LET r == Decode(ty, array[1])
         IN  IF IsOk(r) THEN Ok(<<Tail(array), r[2]>>) ELSE r

\* a run of array_decode_elem(array, 0).embed(ctx)? calls, one per field:
\* Ok(<<rest, decoded fields>>) or the first failure
RECURSIVE DecodeFields(_, _, _, _)
DecodeFields(tys, ctxs, array, acc) ==
    IF Len(tys) = 0 THEN Ok(<<array, acc>>)
    ELSE LET r == ArrayDecodeElem(tys[1], array)
         IN  IF ~IsOk(r)
             THEN IF ctxs[1] = "" THEN r ELSE Embed(ctxs[1], r)
             ELSE DecodeFields(Tail(tys), Tail(ctxs), r[2][1],
                               Append(acc, r[2][2]))

RecordDecodeLax(name, tys, ctxs, value) ==
    LET a == AsArray(value) IN
    IF ~IsOk(a) THEN a
    ELSE LET r == DecodeFields(tys, ctxs, a[2], <<>>)
         IN  IF ~IsOk(r) THEN r ELSE Ok(<<name, r[2][2]>>)

\* a fixed-shape record: the fields in order, then
\* `if ! array.is_empty() { return ... UnparsedValues }`
RecordDecode(name, tys, ctxs, value) ==
    LET a == AsArray(value) IN
    IF ~IsOk(a) THEN a
    ELSE LET r == DecodeFields(tys, ctxs, a[2], <<>>)
         IN  IF ~IsOk(r) THEN r
             ELSE IF Len(r[2][1]) # 0 THEN Err("UnparsedValues", 0)
             ELSE Ok(<<name, r[2][2]>>)

\* the fields of one variant of a sum type, after its discriminant
VariantDecode(name, tys, array) ==
    LET r == DecodeFields(tys, [i \in 1..Len(tys) |-> ""], array, <<>>)
    IN  IF ~IsOk(r) THEN r
        ELSE IF Len(r[2][1]) # 0 THEN Err("UnparsedValues", 0)
        ELSE Ok(<<name, r[2][2]>>)

\* `let (array, code) = array_decode_elem(array, 0).embed("enumeration code")?`
\* Ok(<<rest, code>>)
SumHead(value) ==
    LET a == AsArray(value) IN
    IF ~IsOk(a) THEN a
    ELSE Embed("enumeration code", ArrayDecodeElem("u64", a[2]))

\* every element of a list decoded as a ty: Ok(list) or the first failure
RECURSIVE DecodeAll(_, _, _)
DecodeAll(ty, elems, acc) ==
    IF Len(elems) = 0 THEN Ok(acc)
    ELSE LET r == Decode(ty, elems[1])
         IN  IF ~IsOk(r) THEN r
             ELSE DecodeAll(ty, Tail(elems), Append(acc, r[2]))

\* unsigned integers of every width: the values of the model fit them all
Uint_decode(value) == AsU64(value)

\* byte strings of a fixed size: tx::Hash, hdwallet::XPub, hdwallet::Signature
SizedBytes_decode(size, value) ==
    LET b == AsBytes(value) IN
    IF ~IsOk(b) THEN b
    ELSE IF value[2] # size THEN Err("InvalidSize", size)
    ELSE Ok(value)

String_decode(value) ==
    IF value[1] = "Text" THEN Ok(value[2]) ELSE Err("NotText", 0)

\* Vec<T>
Vec_decode(ty, value) ==
    LET a == AsArray(value) IN
    IF ~IsOk(a) THEN a ELSE DecodeAll(ty, a[2], <<>>)

\* LinkedList<T>
LinkedList_decode(ty, value) ==
    LET a == AsIArray(value) IN
    IF ~IsOk(a) THEN a ELSE DecodeAll(ty, a[2], <<>>)

\* tx::TxProof: number of transactions, merkle root, witnesses hash
TxProof_decode(value) ==
    RecordDecode("TxProof", <<"u32", "tx::Hash", "tx::Hash">>,
                 <<"number", "root", "witnesses_hash">>, value)

\* tx::TxAux: a transaction and its witnesses
TxAux_decode(value) ==
    RecordDecode("TxAux", <<"Value", "Value">>, <<"tx", "witnesses">>, value)

----------------------------------------------------------------------------
\* blockchain crate: types.rs

HeaderHash_from_slice_at_least(bytes) ==
    IF bytes[2] < HASH_SIZE THEN None ELSE Some(VBytes(HASH_SIZE, bytes[3]))

\* HeaderHash::from_slice: a buffer of HASH_SIZE bytes that takes the
\* content of the slice
HeaderHash_from_slice(bytes) ==
    IF bytes[2] # HASH_SIZE THEN None ELSE Some(VBytes(HASH_SIZE, bytes[3]))

HeaderHash_decode(value) ==
    Embed("while decoding Hash",
          LET b == AsBytes(value) IN
          IF ~IsOk(b) THEN b
          ELSE IF HeaderHash_from_slice(b[2]) = None
               THEN Err("InvalidSize", HASH_SIZE)
               ELSE Ok(TheOne(HeaderHash_from_slice(b[2]))))

Version_decode(value) ==
    Embed("while decoding Version",
          RecordDecode("Version", <<"u32", "u32", "u32">>,
                       <<"major", "minor", "revision">>, value))

BlockVersion_decode(value) ==
    Embed("While decoding a BlockVersion",
          RecordDecode("BlockVersion", <<"u16", "u16", "u8">>,
                       <<"major", "minor", "revision">>, value))

SoftwareVersion_decode(value) ==
    Embed("While decoding a SoftwareVersion",
          RecordDecode("SoftwareVersion", <<"String", "u32">>,
                       <<"name", "version">>, value))

BlockHeaderAttributes_decode(value) == Ok(<<"BlockHeaderAttributes", value>>)

HeaderExtraData_decode(value) ==
    Embed("While decoding a HeaderExtraData",
          RecordDecode("HeaderExtraData",
                       <<"BlockVersion", "SoftwareVersion",
                         "BlockHeaderAttributes", "tx::Hash">>,
                       <<"block version", "software version", "attributes",
                         "extra data proof">>, value))

SscProof_decode(value) ==
    Embed("While decoding block::Block",
          LET h == SumHead(value) IN
          IF ~IsOk(h) THEN h
          ELSE LET array == h[2][1]
                   code == h[2][2]
               IN  IF code = 0
                   THEN VariantDecode("Commitments", <<"tx::Hash", "tx::Hash">>, array)
                   ELSE IF code = 1
                   THEN VariantDecode("Openings", <<"tx::Hash", "tx::Hash">>, array)
                   ELSE IF code = 2
                   THEN VariantDecode("Shares", <<"tx::Hash", "tx::Hash">>, array)
                   ELSE IF code = 3
                   THEN VariantDecode("Certificate", <<"tx::Hash">>, array)
                   ELSE Err("InvalidSumtype", code))

----------------------------------------------------------------------------
\* blockchain crate: genesis.rs

genesis_BodyProof_decode(value) ==
    Embed("While decoding BodyProof",
          LET r == Decode("tx::Hash", value)
          IN  IF ~IsOk(r) THEN r ELSE Ok(<<"BodyProof", r[2]>>))

genesis_Body_decode(value) ==
    Embed("While decoding genesis::Body",
          LET a == AsIArray(value)
          IN  IF ~IsOk(a) THEN a ELSE Ok(<<"Body", a[2]>>))

\* chain_difficulty[0] indexes the decoded vector without a length check
genesis_Consensus_decode(value) ==
    LET r == RecordDecode("Consensus", <<"u32", "Vec<u32>">>,
                          <<"epoch", "chain_difficulty">>, value)
    IN  IF IsOk(r) /\ Len(r[2][2][2]) = 0
        THEN Panic("index out of bounds")
        ELSE IF IsOk(r)
        THEN Ok(<<"Consensus", <<r[2][2][1], r[2][2][2][1]>>>>)
        ELSE Embed("While decoding genesis::Consensus", r)

genesis_BlockHeader_decode(value) ==
    Embed("While decoding a genesis::BlockHeader",
          RecordDecode("genesis::BlockHeader",
                       <<"ProtocolMagic", "HeaderHash", "genesis::BodyProof",
                         "genesis::Consensus", "BlockHeaderAttributes">>,
                       <<"protocol magic", "Previous Header Hash", "body proof",
                         "consensus", "extra_data">>, value))

genesis_Block_decode(value) ==
    Embed("While decoding genesis::Block",
          RecordDecode("genesis::Block",
                       <<"genesis::BlockHeader", "genesis::Body", "Value">>,
                       <<"header", "body", "extra">>, value))

----------------------------------------------------------------------------
\* protocol crate: block.rs (the main block and its parts)

SlotId_decode(value) ==
    Embed("While decoding Slotid",
          RecordDecode("SlotId", <<"u32", "u32">>, <<"epoch", "slotid">>, value))

BlockSignature_decode(value) ==
    Embed("While decoding main::BlockSignature",
          LET h == SumHead(value) IN
          IF ~IsOk(h) THEN h
          ELSE LET array == h[2][1]
                   code == h[2][2]
               IN  IF code = 0
                   THEN LET r == Embed("", ArrayDecodeElem("Signature", array))
                        IN  IF ~IsOk(r) THEN r
                            ELSE IF Len(r[2][1]) # 0 THEN Err("UnparsedValues", 0)
                            ELSE Ok(<<"Signature", r[2][2]>>)
                   ELSE IF code = 1 THEN Ok(<<"ProxyLight", array>>)
                   ELSE IF code = 2 THEN Ok(<<"ProxyHeavy", array>>)
                   ELSE Err("UnparsedValues", 0))

\* no emptiness check after the fourth field, and chain_difficulty[0]
\* indexes the decoded vector without a length check
main_Consensus_decode(value) ==
    LET a == AsArray(value)
        r == DecodeFields(<<"SlotId", "XPub", "Vec<u64>", "main::BlockSignature">>,
                          <<"slotid code", "leader key", "chain difficulty",
                            "block signature">>, a[2], <<>>)
    IN  IF ~IsOk(a) THEN Embed("While decoding main::Consensus", a)
        ELSE IF ~IsOk(r) THEN Embed("While decoding main::Consensus", r)
        ELSE IF Len(r[2][2][3]) = 0 THEN Panic("index out of bounds")
        ELSE Ok(<<"main::Consensus",
                  <<r[2][2][1], r[2][2][2], r[2][2][3][1], r[2][2][4]>>>>)

BodyProof_decode(value) ==
    Embed("While decoding BodyProof",
          RecordDecode("BodyProof",
                       <<"TxProof", "SscProof", "tx::Hash", "tx::Hash">>,
                       <<"tx", "mpc", "proxy_sk", "update">>, value))

MainBlockHeader_decode(value) ==
    Embed("While decoding a MainBlockHeader",
          RecordDecode("MainBlockHeader",
                       <<"ProtocolMagic", "HeaderHash", "BodyProof",
                         "main::Consensus", "HeaderExtraData">>,
                       <<"protocol magic", "Previous Header Hash", "body proof",
                         "consensus", "extra_data">>, value))

TxPayload_decode(value) ==
    Embed("While decoding TxPayload",
          LET r == LinkedList_decode("TxAux", value)
          IN  IF ~IsOk(r) THEN r ELSE Ok(<<"TxPayload", r[2]>>))

main_Body_decode(value) ==
    Embed("While decoding Body",
          RecordDecode("Body", <<"TxPayload", "Value", "Value", "Value">>,
                       <<"tx", "scc", "dlg", "update">>, value))

main_Block_decode(value) ==
    Embed("While decoding block::Block",
          RecordDecode("main::Block", <<"MainBlockHeader", "main::Body", "Value">>,
                       <<"header", "body", "extra">>, value))

\* blockchain crate, module normal: the main block and its header
normal_BlockHeader_decode(value) == MainBlockHeader_decode(value)
normal_Block_decode(value) == main_Block_decode(value)

----------------------------------------------------------------------------
\* blockchain crate: block.rs

Block_decode(value) ==
    Embed("While decoding block::Block",
          LET h == SumHead(value) IN
          IF ~IsOk(h) THEN h
          ELSE LET array == h[2][1]
                   code == h[2][2]
               IN  IF code = 0
                   THEN VariantDecode("GenesisBlock", <<"genesis::Block">>, array)
                   ELSE IF code = 1
                   THEN VariantDecode("MainBlock", <<"normal::Block">>, array)
                   ELSE Err("InvalidSumtype", code))

BlockHeader_decode(value) ==
    LET h == SumHead(value) IN
    IF ~IsOk(h) THEN h
    ELSE LET array == h[2][1]
             code == h[2][2]
         IN  IF code = 0
             THEN VariantDecode("GenesisBlockHeader", <<"genesis::BlockHeader">>, array)
             ELSE IF code = 1
             THEN VariantDecode("MainBlockHeader", <<"normal::BlockHeader">>, array)
             ELSE Err("InvalidSumtype", code)

----------------------------------------------------------------------------
\* protocol crate: block.rs (the outer sum types)

protocol_BlockHeader_decode(value) ==
    LET h == SumHead(value) IN
    IF ~IsOk(h) THEN h
    ELSE LET array == h[2][1]
             code == h[2][2]
         IN  IF code = 1
             THEN VariantDecode("MainBlockHeader", <<"MainBlockHeader">>, array)
             ELSE Err("InvalidSumtype", code)

protocol_Block_decode(value) ==
    Embed("While decoding block::Block",
          LET h == SumHead(value) IN
          IF ~IsOk(h) THEN h
          ELSE LET array == h[2][1]
                   code == h[2][2]
               IN  IF code = 1
                   THEN VariantDecode("MainBlock", <<"main::Block">>, array)
                   ELSE Err("InvalidSumtype", code))

----------------------------------------------------------------------------
\* protocol crate: packet.rs

packet_MainBlockHeader_decode(value) ==
    Embed("While decoding a MainBlockHeader",
          RecordDecode("packet::MainBlockHeader",
                       <<"u32", "HeaderHash", "Vec<Value>", "Vec<Value>",
                         "Vec<Value>">>,
                       <<"protocol magic", "Previous Block Hash", "body proof",
                         "consensus", "extra_data">>, value))

packet_BlockHeader_decode(value) ==
    LET h == SumHead(value) IN
    IF ~IsOk(h) THEN h
    ELSE LET array == h[2][1]
             code == h[2][2]
         IN  IF code = 1
             THEN VariantDecode("MainBlockHeader", <<"packet::MainBlockHeader">>, array)
             ELSE Err("InvalidSumtype", code)

BlockHeaderResponse_any_code(value) ==
    LET h == SumHead(value) IN
    IF ~IsOk(h) THEN h
    ELSE VariantDecode("Ok", <<"LinkedList<packet::BlockHeader>">>, h[2][1])

BlockHeaderResponse_lax(value) ==
    LET h == SumHead(value) IN
    IF ~IsOk(h) THEN h
    ELSE LET array == h[2][1]
             code == h[2][2]
             r == ArrayDecodeElem("LinkedList<packet::BlockHeader>", array)
         IN  IF code # 0 THEN Err("InvalidSumtype", code)
             ELSE IF ~IsOk(r) THEN r
             ELSE Ok(<<"Ok", <<r[2][2]>>>>)

BlockHeaderResponse_decode(value) ==
    LET h == SumHead(value) IN
    IF ~IsOk(h) THEN h
    ELSE LET array == h[2][1]
             code == h[2][2]
         IN  IF code = 0
             THEN VariantDecode("Ok", <<"LinkedList<packet::BlockHeader>">>, array)
             ELSE Err("InvalidSumtype", code)

----------------------------------------------------------------------------
\* CborValue::decode, resolved on the type the caller asks for

Decode(ty, value) ==
    CASE ty \in {"u8", "u16", "u32", "u64", "ProtocolMagic"} -> Uint_decode(value)
      [] ty = "String" -> String_decode(value)
      [] ty = "Value" -> Ok(value)
      [] ty = "Vec<Value>" -> Vec_decode("Value", value)
      [] ty = "Vec<u32>" -> Vec_decode("u32", value)
      [] ty = "Vec<u64>" -> Vec_decode("u64", value)
      [] ty = "tx::Hash" -> SizedBytes_decode(HASH_SIZE, value)
      [] ty = "XPub" -> SizedBytes_decode(XPUB_SIZE, value)
      [] ty = "Signature" -> SizedBytes_decode(SIGNATURE_SIZE, value)
      [] ty = "TxProof" -> TxProof_decode(value)
      [] ty = "TxAux" -> TxAux_decode(value)
      [] ty = "HeaderHash" -> HeaderHash_decode(value)
      [] ty = "Version" -> Version_decode(value)
      [] ty = "BlockVersion" -> BlockVersion_decode(value)
      [] ty = "SoftwareVersion" -> SoftwareVersion_decode(value)
      [] ty = "BlockHeaderAttributes" -> BlockHeaderAttributes_decode(value)
      [] ty = "HeaderExtraData" -> HeaderExtraData_decode(value)
      [] ty = "SscProof" -> SscProof_decode(value)
      [] ty = "genesis::BodyProof" -> genesis_BodyProof_decode(value)
      [] ty = "genesis::Body" -> genesis_Body_decode(value)
      [] ty = "genesis::Consensus" -> genesis_Consensus_decode(value)
      [] ty = "genesis::BlockHeader" -> genesis_BlockHeader_decode(value)
      [] ty = "genesis::Block" -> genesis_Block_decode(value)
      [] ty = "SlotId" -> SlotId_decode(value)
      [] ty = "main::BlockSignature" -> BlockSignature_decode(value)
      [] ty = "main::Consensus" -> main_Consensus_decode(value)
      [] ty = "BodyProof" -> BodyProof_decode(value)
      [] ty = "MainBlockHeader" -> MainBlockHeader_decode(value)
      [] ty = "TxPayload" -> TxPayload_decode(value)
      [] ty = "main::Body" -> main_Body_decode(value)
      [] ty = "main::Block" -> main_Block_decode(value)
      [] ty = "normal::BlockHeader" -> normal_BlockHeader_decode(value)
      [] ty = "normal::Block" -> normal_Block_decode(value)
      [] ty = "Block" -> Block_decode(value)
      [] ty = "BlockHeader" -> BlockHeader_decode(value)
      [] ty = "protocol::BlockHeader" -> protocol_BlockHeader_decode(value)
      [] ty = "protocol::Block" -> protocol_Block_decode(value)
      [] ty = "packet::MainBlockHeader" -> packet_MainBlockHeader_decode(value)
      [] ty = "packet::BlockHeader" -> packet_BlockHeader_decode(value)
      [] ty = "LinkedList<packet::BlockHeader>" ->
             LinkedList_decode("packet::BlockHeader", value)
      [] ty = "BlockHeaderResponse" -> BlockHeaderResponse_decode(value)

----------------------------------------------------------------------------
\* Decoding as a pure function: value trees built around well-formed ones

\* discriminants 0..MaxCode are tried on every sum type
MaxCode == 4

H32 == VBytes(HASH_SIZE, 1)
H31 == VBytes(HASH_SIZE - 1, 1)
B64 == VBytes(XPUB_SIZE, 2)
Attrs == VObject(<<>>)

ValidGenesisConsensus == VArray(<<VU64(0), VArray(<<VU64(0)>>)>>)
ValidGenesisHeader ==
    VArray(<<VU64(1), H32, H32, ValidGenesisConsensus, Attrs>>)
ValidGenesisBlock ==
    VArray(<<ValidGenesisHeader, VIArray(<<>>), VArray(<<>>)>>)

ValidSscProof(c) ==
    IF c = 3 THEN VArray(<<VU64(c), H32>>) ELSE VArray(<<VU64(c), H32, H32>>)
ValidBodyProof ==
    VArray(<<VArray(<<VU64(0), H32, H32>>), ValidSscProof(0), H32, H32>>)
ValidSignature == VArray(<<VU64(0), B64>>)
ValidMainConsensus ==
    VArray(<<VArray(<<VU64(0), VU64(1)>>), B64, VArray(<<VU64(1)>>),
             ValidSignature>>)
ValidExtraData ==
    VArray(<<VArray(<<VU64(0), VU64(1), VU64(0)>>),
             VArray(<<VText(1), VU64(0)>>), Attrs, H32>>)
ValidMainHeader ==
    VArray(<<VU64(1), H32, ValidBodyProof, ValidMainConsensus, ValidExtraData>>)
ValidMainBody ==
    VArray(<<VIArray(<<>>), VArray(<<>>), VArray(<<>>), VArray(<<>>)>>)
ValidMainBlock == VArray(<<ValidMainHeader, ValidMainBody, VArray(<<>>)>>)
ValidPacketHeader ==
    VArray(<<VU64(1),
             VArray(<<VU64(1), H32, VArray(<<>>), VArray(<<>>), VArray(<<>>)>>)>>)

SumTypes ==
    {"Block", "BlockHeader", "SscProof", "BlockHeaderResponse",
     "main::BlockSignature"}

\* what follows the discriminant: the fields of each variant, and wrong ones
Payloads(ty) ==
    CASE ty = "Block" ->
           {<<ValidGenesisBlock>>, <<ValidMainBlock>>, <<VU64(0)>>, <<>>}
      [] ty = "BlockHeader" ->
           {<<ValidGenesisHeader>>, <<ValidMainHeader>>, <<VU64(0)>>, <<>>}
      [] ty = "protocol::Block" ->
           {<<ValidGenesisBlock>>, <<ValidMainBlock>>, <<VU64(0)>>, <<>>}
      [] ty = "protocol::BlockHeader" ->
           {<<ValidGenesisHeader>>, <<ValidMainHeader>>, <<VU64(0)>>, <<>>}
      [] ty = "packet::BlockHeader" ->
           {<<ValidGenesisHeader>>, <<ValidPacketHeader[2][2]>>, <<VU64(0)>>, <<>>}
      [] ty = "SscProof" ->
           {<<H32, H32>>, <<H32>>, <<H31, H32>>, <<H31>>, <<>>}
      [] ty = "BlockHeaderResponse" ->
           {<<VIArray(<<>>)>>, <<VIArray(<<ValidPacketHeader>>)>>,
            <<VIArray(<<ValidPacketHeader, ValidPacketHeader>>)>>,
            <<VIArray(<<VU64(0)>>)>>, <<VArray(<<>>)>>, <<>>}
      [] ty = "main::BlockSignature" ->
           {<<B64>>, <<H32>>, <<VU64(0)>>, <<>>}

\* the Block and BlockHeader decoders of the protocol crate
ProtocolSumTypes == {"protocol::Block", "protocol::BlockHeader", "packet::BlockHeader"}

SumInputs(ty) ==
    { VArray(<<VU64(c)>> \o payload \o extra) :
        c \in 0..MaxCode, payload \in Payloads(ty),
        extra \in {<<>>, <<VU64(0)>>} }
    \cup {VU64(0), VArray(<<>>), VArray(<<H32>>)}

\* the fixed-shape records
RecordTypes ==
    {"Version", "BlockVersion", "SoftwareVersion", "HeaderExtraData", "SlotId",
     "BodyProof", "main::Body", "main::Block", "MainBlockHeader",
     "genesis::BlockHeader", "genesis::Block", "genesis::Consensus",
     "main::Consensus"}

\* a well-formed encoding of each record
ValidRecord(ty) ==
    CASE ty \in {"Version", "BlockVersion"} -> VArray(<<VU64(0), VU64(1), VU64(0)>>)
      [] ty = "SoftwareVersion" -> VArray(<<VText(1), VU64(0)>>)
      [] ty = "HeaderExtraData" -> ValidExtraData
      [] ty = "SlotId" -> VArray(<<VU64(0), VU64(1)>>)
      [] ty = "BodyProof" -> ValidBodyProof
      [] ty = "main::Body" -> ValidMainBody
      [] ty = "main::Block" -> ValidMainBlock
      [] ty = "MainBlockHeader" -> ValidMainHeader
      [] ty = "genesis::BlockHeader" -> ValidGenesisHeader
      [] ty = "genesis::Block" -> ValidGenesisBlock
      [] ty = "genesis::Consensus" -> ValidGenesisConsensus
      [] ty = "main::Consensus" -> ValidMainConsensus

\* what may follow the fields of a record
Surplus == {<<>>, <<VU64(0)>>, <<VU64(0), H32>>}

\* a Consensus whose chain difficulty is an array of no element
EmptyDifficulty(ty) ==
    CASE ty = "genesis::Consensus" -> {VArray(<<VU64(0), VArray(<<>>)>>)}
      [] ty = "main::Consensus" ->
           {VArray(<<VArray(<<VU64(0), VU64(1)>>), B64, VArray(<<>>),
                     ValidSignature>>)}
      [] OTHER -> {}

\* a prefix of the fields of a well-formed record, then a surplus
RecordInputs(ty) ==
    LET f == ValidRecord(ty)[2]
    IN  { VArray(SubSeq(f, 1, k) \o extra) : k \in 0..Len(f), extra \in Surplus }
        \cup {VU64(0)} \cup EmptyDifficulty(ty)

\* byte strings of several lengths and contents, and values of other kinds
HashInputs ==
    { VBytes(len, fill) :
        len \in {0, HASH_SIZE - 1, HASH_SIZE, HASH_SIZE + 1, 2 * HASH_SIZE},
        fill \in 0..2 }
    \cup {VU64(0), VArray(<<>>)}

\* the value tree of tests::GET_BLOCK_HEADER_BYTES; a byte string is kept
\* as its length and first byte, a text as its length
GET_BLOCK_HEADER_VALUE ==
    VArray(<<VU64(0),
      VIArray(<<
        VArray(<<VU64(1),
          VArray(<<
            VU64(764824073),
            VBytes(32, 157),
            VArray(<<VArray(<<VU64(1), VBytes(32, 154), VBytes(32, 239)>>),
                     VArray(<<VU64(3), VBytes(32, 211)>>),
                     VBytes(32, 175), VBytes(32, 78)>>),
            VArray(<<VArray(<<VU64(42), VU64(7812)>>),
                     VBytes(64, 38),
                     VArray(<<VU64(914909)>>),
                     VArray(<<VU64(2),
                              VArray(<<VArray(<<VU64(0), VBytes(64, 38),
                                                VBytes(64, 241), VBytes(64, 138)>>),
                                       VBytes(64, 201)>>)>>)>>),
            VArray(<<VArray(<<VU64(0), VU64(1), VU64(0)>>),
                     VArray(<<VText(10), VU64(0)>>),
                     VObject(<<>>),
                     VBytes(32, 75)>>)>>)>>)>>)>>)

\* longest header list of a response
MaxList == 2

\* a packet header of protocol magic m, as it is on the wire
WireHeader(m) ==
    VArray(<<VU64(1),
             VArray(<<VU64(m), H32, VArray(<<>>), VArray(<<>>), VArray(<<>>)>>)>>)

\* discriminant 0, a sequence of well-formed headers, and what may follow it
ResponseInputs ==
    { VArray(<<VU64(0), VIArray(hs)>> \o extra) :
        hs \in BoundedSeq({WireHeader(0), WireHeader(1)}, MaxList),
        extra \in {<<>>, <<VU64(0)>>} }
    \cup {GET_BLOCK_HEADER_VALUE}

DecTypes == SumTypes \cup ProtocolSumTypes \cup RecordTypes \cup {"HeaderHash"}

DecInputs(ty) ==
    CASE ty = "BlockHeaderResponse" -> SumInputs(ty) \cup ResponseInputs
      [] ty \in (SumTypes \cup ProtocolSumTypes) \ {"BlockHeaderResponse"} ->
           SumInputs(ty)
      [] ty \in RecordTypes -> RecordInputs(ty)
      [] ty = "HeaderHash" -> HashInputs

InitDecode ==
    /\ InitSyncIdle
    /\ InitScanIdle
    /\ dec_ty \in DecTypes
    /\ dec_in \in DecInputs(dec_ty)
    /\ dec_out = <<>>

DoDecode ==
    /\ dec_out = <<>>
    /\ dec_out' = Decode(dec_ty, dec_in)
    /\ UNCHANGED <<storeVars, syncVars, epochVars, histVars, scanVars,
                   dec_ty, dec_in>>

NextDecode == DoDecode

SpecDecode == InitDecode /\ [][NextDecode]_vars

----------------------------------------------------------------------------
\* CborValue::encode.  A typed value is what decode returns: a record is
\* <<name, fields>>, a variant <<name, <<payload>>>>, a HeaderHash its
\* HASH_SIZE bytes.  An encoder gives a value tree, or Panic when it does
\* not return.

IsPanic(v) == v[1] = "Panic"

Uint_encode(n) == VU64(n)
String_encode(str) == VText(str)

RECURSIVE Encode(_, _)

\* every element of a list encoded as a ty: the list of encodings, or the
\* first panic
RECURSIVE EncodeAll(_, _, _)
EncodeAll(ty, xs, acc) ==
    IF Len(xs) = 0 THEN acc
    ELSE LET e == Encode(ty, xs[1])
         IN  IF IsPanic(e) THEN e
             ELSE EncodeAll(ty, Tail(xs), Append(acc, e))

\* LinkedList<T>: an indefinite array of the encodings, in order
LinkedList_encode(ty, xs) ==
    LET es == EncodeAll(ty, xs, <<>>)
    IN  IF Len(es) > 0 /\ es[1] = "Panic" THEN es ELSE VIArray(es)

Version_encode_swapped(x) ==
    VArray(<<Uint_encode(x[2][2]), Uint_encode(x[2][1]), Uint_encode(x[2][3])>>)

Version_encode(x) ==
    VArray(<<Uint_encode(x[2][1]), Uint_encode(x[2][2]), Uint_encode(x[2][3])>>)

BlockVersion_encode(x) ==
    VArray(<<Uint_encode(x[2][1]), Uint_encode(x[2][2]), Uint_encode(x[2][3])>>)

SoftwareVersion_encode(x) ==
    VArray(<<String_encode(x[2][1]), Uint_encode(x[2][2])>>)

\* Bytes::from_slice(self.as_ref()): the HASH_SIZE bytes of the hash
HeaderHash_encode(x) == VBytes(HASH_SIZE, x[3])

BlockHeaderAttributes_encode(x) == x[2]

\* unimplemented!()
genesis_BlockHeader_encode(x) == Panic("not implemented")

\* blockchain crate, module normal
normal_BlockHeader_encode(x) == Panic("not implemented")

BlockHeader_encode(x) ==
    LET mbh == IF x[1] = "GenesisBlockHeader"
               THEN genesis_BlockHeader_encode(x[2][1])
               ELSE normal_BlockHeader_encode(x[2][1])
    IN  IF IsPanic(mbh) THEN mbh
        ELSE VArray(<<VU64(IF x[1] = "GenesisBlockHeader" THEN 0 ELSE 1), mbh>>)

\* unimplemented!()
packet_MainBlockHeader_encode(x) == Panic("not implemented")

packet_BlockHeader_encode(x) ==
    LET mbh == packet_MainBlockHeader_encode(x[2][1])
    IN  IF IsPanic(mbh) THEN mbh ELSE VArray(<<VU64(1), mbh>>)

BlockHeaderResponse_encode(x) ==
    LET l == LinkedList_encode("packet::BlockHeader", x[2][1])
    IN  IF IsPanic(l) THEN l ELSE VArray(<<VU64(0), l>>)

Encode(ty, x) ==
    CASE ty = "Version" -> Version_encode(x)
      [] ty = "BlockVersion" -> BlockVersion_encode(x)
      [] ty = "SoftwareVersion" -> SoftwareVersion_encode(x)
      [] ty = "HeaderHash" -> HeaderHash_encode(x)
      [] ty = "BlockHeaderAttributes" -> BlockHeaderAttributes_encode(x)
      [] ty = "BlockHeader" -> BlockHeader_encode(x)
      [] ty = "packet::BlockHeader" -> packet_BlockHeader_encode(x)
      [] ty = "BlockHeaderResponse" -> BlockHeaderResponse_encode(x)

----------------------------------------------------------------------------
\* Encoding and decoding back, as a pure function of a typed value

\* the fields of the typed values are 0..MaxField
MaxField == 2

\* the types whose encode does nothing but build a value
LeafEncTypes ==
    {"Version", "BlockVersion", "SoftwareVersion", "HeaderHash",
     "BlockHeaderAttributes"}
\* the sum types that define encode
SumEncTypes == {"BlockHeader", "BlockHeaderResponse"}

\* a genesis header and a packet header of protocol magic m, as decoded
GenesisHeaderOf(m) ==
    Decode("BlockHeader",
           VArray(<<VU64(0),
                    VArray(<<VU64(m), H32, H32, ValidGenesisConsensus, Attrs>>)>>))[2]
PacketHeaderOf(m) ==
    Decode("packet::BlockHeader",
           VArray(<<VU64(1),
                    VArray(<<VU64(m), H32, VArray(<<>>), VArray(<<>>),
                             VArray(<<>>)>>)>>))[2]

TypedValues(ty) ==
    CASE ty \in {"Version", "BlockVersion"} ->
           { <<ty, <<a, b, c>>>> : a \in 0..MaxField, b \in 0..MaxField,
                                   c \in 0..MaxField }
      [] ty = "SoftwareVersion" ->
           { <<ty, <<n, v>>>> : n \in 0..MaxField, v \in 0..MaxField }
      [] ty = "HeaderHash" -> { VBytes(HASH_SIZE, f) : f \in 0..MaxField }
      [] ty = "BlockHeaderAttributes" ->
           { <<ty, v>> : v \in {Attrs, VU64(0), VArray(<<VU64(1)>>)} }
      [] ty = "BlockHeader" -> { GenesisHeaderOf(m) : m \in 0..MaxField }
      [] ty = "BlockHeaderResponse" ->
           { <<"Ok", <<l>>>> :
               l \in BoundedSeq({PacketHeaderOf(m) : m \in 0..1}, 2) }

InitRoundTrip ==
    /\ InitSyncIdle
    /\ InitScanIdle
    /\ dec_ty \in LeafEncTypes \cup SumEncTypes
    /\ dec_in \in TypedValues(dec_ty)
    /\ dec_out = <<>>

\* decode(encode(x)); a panic of encode is the outcome
DoRoundTrip ==
    /\ dec_out = <<>>
    /\ dec_out' = LET e == Encode(dec_ty, dec_in)
                  IN  IF IsPanic(e) THEN e ELSE Decode(dec_ty, e)
    /\ UNCHANGED <<storeVars, syncVars, epochVars, histVars, scanVars,
                   dec_ty, dec_in>>

NextRoundTrip == DoRoundTrip

SpecRoundTrip == InitRoundTrip /\ [][NextRoundTrip]_vars

----------------------------------------------------------------------------
\* protocol crate: packet.rs, the request constructors.  A message is
\* <<tag, data>>.

\* cbor::encode_to_cbor(..).unwrap(): the bytes of a value tree, kept as the
\* tree they serialise
encode_to_cbor(value) == <<"cbor", value>>

MsgType_to_u8_swapped(msg_type) ==
    CASE msg_type = "MsgSubscribe" -> 14
      [] msg_type = "MsgGetHeaders" -> 6
      [] msg_type = "MsgGetBlocks" -> 4

MsgType_to_u8(msg_type) ==
    CASE msg_type = "MsgSubscribe" -> 14
      [] msg_type = "MsgGetHeaders" -> 4
      [] msg_type = "MsgGetBlocks" -> 6

send_msg_subscribe(keep_alive) ==
    LET value == IF keep_alive THEN 43 ELSE 42
    IN  <<14, encode_to_cbor(VU64(value))>>

send_msg_getheaders_reversed(froms, to) ==
    LET fromEncoded == [i \in 1..Len(froms) |->
                          VBytes(HASH_SIZE, froms[Len(froms) + 1 - i][3])]
        toEncoded == IF to = None THEN VArray(<<>>)
                     ELSE VArray(<<VBytes(HASH_SIZE, TheOne(to)[3])>>)
    IN  <<4, encode_to_cbor(VArray(<<VIArray(fromEncoded), toEncoded>>))>>

send_msg_getheaders(froms, to) ==
    LET fromEncoded == [i \in 1..Len(froms) |-> VBytes(HASH_SIZE, froms[i][3])]
        toEncoded == IF to = None THEN VArray(<<>>)
                     ELSE VArray(<<VBytes(HASH_SIZE, TheOne(to)[3])>>)
    IN  <<4, encode_to_cbor(VArray(<<VIArray(fromEncoded), toEncoded>>))>>

send_msg_getblocks(from, to) ==
    LET from_encoded == VBytes(HASH_SIZE, from[3])
        to_encoded == VBytes(HASH_SIZE, to[3])
    IN  <<6, encode_to_cbor(VArray(<<from_encoded, to_encoded>>))>>

----------------------------------------------------------------------------
\* The request constructors as pure functions of their arguments

\* longest list of from hashes
MaxFroms == 3

Hashes == {VBytes(HASH_SIZE, f) : f \in 0..MaxField}

SendArgs(fn) ==
    CASE fn = "send_msg_subscribe" -> {<<TRUE>>, <<FALSE>>}
      [] fn = "send_msg_getheaders" ->
           { <<froms, to>> : froms \in BoundedSeq(Hashes, MaxFroms),
                             to \in {None} \cup {Some(h) : h \in Hashes} }
      [] fn = "send_msg_getblocks" -> Hashes \X Hashes

InitSend ==
    /\ InitSyncIdle
    /\ InitScanIdle
    /\ dec_ty \in {"send_msg_subscribe", "send_msg_getheaders", "send_msg_getblocks"}
    /\ dec_in \in SendArgs(dec_ty)
    /\ dec_out = <<>>

DoSend ==
    /\ dec_out = <<>>
    /\ dec_out' = CASE dec_ty = "send_msg_subscribe" -> send_msg_subscribe(dec_in[1])
                    [] dec_ty = "send_msg_getheaders" ->
                         send_msg_getheaders(dec_in[1], dec_in[2])
                    [] dec_ty = "send_msg_getblocks" ->
                         send_msg_getblocks(dec_in[1], dec_in[2])
    /\ UNCHANGED <<storeVars, syncVars, epochVars, histVars, scanVars,
                   dec_ty, dec_in>>

NextSend == DoSend

SpecSend == InitSend /\ [][NextSend]_vars

----------------------------------------------------------------------------
\* Properties of the synchronisation engine (checked under Spec)

DecodedHdr(raw) == TheOne(BlockDecode(raw))
LastDecodes == last.seen /\ BlockDecode(last.blk) # None
MaxOf(S) == CHOOSE x \in S : \A y \in S : y <= x

\* C1: every block in the pack writer has previous_header equal to the hash
\* of the block appended immediately before it, the first one to the start
\* hash passed to download_epoch; a block whose previous_header is not the
\* running previous_headerhash aborts the run and is not appended.
C1_ChainContinuity ==
    /\ \A i \in 1..Len(writer) :
         writer[i].hdr.prev = IF i = 1 THEN x_start_hash
                              ELSE compute_hash(writer[i - 1].hdr)
    /\ (LastDecodes /\ DecodedHdr(last.blk).prev # last.prev_before)
         => /\ pc = "aborted"
            /\ ~last.appended
            /\ Len(writer) = last.len_before

\* three blocks appended over two batches, then a block off the chain
C1_Witness ==
    /\ Len(writer) = 3
    /\ LastDecodes
    /\ DecodedHdr(last.blk).prev # last.prev_before
    /\ pc = "aborted"

\* C2: the tag of epoch_id is written only from the commit position, in an
\* iteration that found the boundary, with every block of the reply
\* processed and the pack permanent, and the call returns with that write;
\* a step that aborts writes no tag, and an aborted call has written none
\* for its epoch.
C2_TagOnlyOnCommit ==
    [][ /\ (tags' # tags \/ ~(written' \subseteq written))
           => /\ pc = "tag"
              /\ found_epoch_boundary # None
              /\ blocks_raw = <<>>
              /\ writer \in packs
              /\ tags' = WriteEpochTag(tags, download_epoch_id, writer)
              /\ written' = written \cup {download_epoch_id}
              /\ download_epoch_id \notin written
              /\ pc' = "sync_loop"
        /\ pc' = "headers" => found_epoch_boundary' = None
        /\ pc' \in {"commit", "tag"}
           => found_epoch_boundary' # None /\ blocks_raw' = <<>>
        /\ pc' = "aborted"
           => /\ tags' = tags
              /\ (pc # "aborted" /\ calls # <<>> /\ calls[Len(calls)].ret = None)
                 => calls[Len(calls)].epoch \notin written'
      ]_vars

\* an epoch committed after two batches of blocks
C2_Witness ==
    /\ pc = "sync_loop"
    /\ written = {0}
    /\ Len(tags[0]) = 3

\* C3: every block in the pack writer has the epoch of the call; a block of
\* another epoch aborts the run and is not appended.
C3_EpochOfAppended ==
    /\ \A i \in 1..Len(writer) : writer[i].hdr.epoch = download_epoch_id
    /\ (LastDecodes /\ DecodedHdr(last.blk).epoch # last.epoch_id)
         => /\ pc = "aborted"
            /\ ~last.appended
            /\ Len(writer) = last.len_before

\* the first block of epoch 1 served, on the chain, as a block of epoch 0
C3_Witness ==
    /\ Len(writer) = 3
    /\ LastDecodes
    /\ DecodedHdr(last.blk).epoch # last.epoch_id
    /\ DecodedHdr(last.blk).prev = last.prev_before
    /\ pc = "aborted"

\* C4: the start hash a resumed invocation passes to its first
\* download_epoch(N+1) is the boundary hash download_epoch(N) returned.
C4_ResumeFromBoundary ==
    (resumed /\ calls # <<>>)
      => calls[1].start = returned[calls[1].epoch - 1]

\* C5: the tags of the epochs committed when the invocation started keep
\* their values, and the invocation writes no tag at or below the highest
\* of them.
C5_CommittedTagsKept ==
    /\ \A e \in DOMAIN tags0 : e \in DOMAIN tags /\ tags[e] = tags0[e]
    /\ \A w \in written : \A e \in DOMAIN tags0 : w > e

\* a resumed invocation that committed a further epoch
C5_Witness ==
    /\ DOMAIN tags0 # {}
    /\ written # {}

FirstUncommitted ==
    IF DOMAIN tags0 = {} THEN EpochStart ELSE MaxOf(DOMAIN tags0) + 1

\* C6: the calls of download_epoch are for first_uncommitted,
\* first_uncommitted + 1, ... in this order, each below the tip's epoch,
\* each after the first starting from what the one before returned; an
\* invocation that completes has called every epoch of that range.
C6_CallsInOrder ==
    /\ \A i \in 1..Len(calls) :
         /\ calls[i].epoch = FirstUncommitted + i - 1
         /\ calls[i].epoch < tip_epoch
    /\ \A i \in 2..Len(calls) :
         /\ calls[i - 1].ret # None
         /\ calls[i].start = TheOne(calls[i - 1].ret)
    /\ pc = "done"
         => {calls[i].epoch : i \in 1..Len(calls)}
              = {e \in 0..tip_epoch : FirstUncommitted <= e /\ e < tip_epoch}

\* a complete invocation of two calls
C6_Witness ==
    /\ pc = "done"
    /\ Len(calls) = 2

\* C8: a block that passes the epoch and continuity checks and whose slotid
\* is not the expected one is appended without aborting, and leaves
\* expected_slotid at its slotid + 1.
C8_GapNonFatal ==
    (/\ LastDecodes
     /\ DecodedHdr(last.blk).epoch = last.epoch_id
     /\ DecodedHdr(last.blk).prev = last.prev_before
     /\ DecodedHdr(last.blk).slotid # last.exp_before)
      => /\ last.appended
         /\ last.exp_after = DecodedHdr(last.blk).slotid + 1

\* C8 for the slot ids below the largest u32
C8_GapNonFatalBelowMax ==
    (/\ LastDecodes
     /\ DecodedHdr(last.blk).epoch = last.epoch_id
     /\ DecodedHdr(last.blk).prev = last.prev_before
     /\ DecodedHdr(last.blk).slotid # last.exp_before
     /\ DecodedHdr(last.blk).slotid < U32Max)
      => /\ last.appended
         /\ last.exp_after = DecodedHdr(last.blk).slotid + 1

\* the slot ids 0, 1, 3 of the chain
C8_GapReached ==
    /\ Len(writer) = 3
    /\ last.appended
    /\ last.exp_before = 2
    /\ expected_slotid = 4

----------------------------------------------------------------------------
\* Properties of the scan (checked under SpecScan)

Epochs(hdrs) == [i \in 1..Len(hdrs) |-> hdrs[i].epoch]

ScanExample ==
    /\ scan_out.status # "idle"
    /\ Epochs(scan_hdrs) = <<5, 5, 6, 6, 6>>
    /\ scan_epoch = 5

----------------------------------------------------------------------------
\* Properties of the sum-type decoders (checked under SpecDecode)

\* the discriminant an input carries, if it is an array that starts with one
HeadCode(v) ==
    IF v[1] = "Array" /\ Len(v[2]) > 0 /\ v[2][1][1] = "U64"
    THEN Some(v[2][1][2]) ELSE None

\* the variants of each sum type, by discriminant, counted from 0
VariantsOf(ty) ==
    CASE ty = "Block" -> <<"GenesisBlock", "MainBlock">>
      [] ty = "BlockHeader" -> <<"GenesisBlockHeader", "MainBlockHeader">>
      [] ty = "SscProof" -> <<"Commitments", "Openings", "Shares", "Certificate">>
      [] ty = "BlockHeaderResponse" -> <<"Ok">>

\* the well-formed encoding of variant c of a sum type
WellFormed(ty, c) ==
    CASE ty = "Block" ->
           VArray(<<VU64(c), IF c = 0 THEN ValidGenesisBlock ELSE ValidMainBlock>>)
      [] ty = "BlockHeader" ->
           VArray(<<VU64(c), IF c = 0 THEN ValidGenesisHeader ELSE ValidMainHeader>>)
      [] ty = "SscProof" -> ValidSscProof(c)
      [] ty = "BlockHeaderResponse" ->
           VArray(<<VU64(c), VIArray(<<ValidPacketHeader>>)>>)

\* C9: for Block, BlockHeader, SscProof and BlockHeaderResponse, an array
\* that starts with a known discriminant decodes to the variant of that
\* discriminant (and to no other, and never to InvalidSumtype), and an array
\* that starts with any other discriminant c fails with InvalidSumtype(c).
C9_SumTypes ==
    (/\ dec_ty \in SumTypes \ {"main::BlockSignature"}
     /\ dec_out # <<>>
     /\ HeadCode(dec_in) # None)
    => LET c == TheOne(HeadCode(dec_in))
           vs == VariantsOf(dec_ty)
       IN  IF c < Len(vs)
           THEN /\ ~(dec_out[1] = "Err" /\ dec_out[2] = "InvalidSumtype")
                /\ IsOk(dec_out) => dec_out[2][1] = vs[c + 1]
                /\ dec_in = WellFormed(dec_ty, c) => IsOk(dec_out)
           ELSE IsErr(dec_out, "InvalidSumtype", c)

\* a well-formed main block under discriminant 1 has been decoded to the
\* MainBlock variant
C9_Witness ==
    /\ dec_ty = "Block"
    /\ dec_in = WellFormed("Block", 1)
    /\ dec_out # <<>>
    /\ IsOk(dec_out)
    /\ dec_out[2][1] = "MainBlock"

\* C10: a BlockSignature array whose discriminant is not 0, 1 or 2 fails
\* with InvalidSumtype carrying that discriminant.
C10_SignatureUnknownCode ==
    (/\ dec_ty = "main::BlockSignature"
     /\ dec_out # <<>>
     /\ HeadCode(dec_in) # None
     /\ TheOne(HeadCode(dec_in)) \notin {0, 1, 2})
    => IsErr(dec_out, "InvalidSumtype", TheOne(HeadCode(dec_in)))

\* the decoder of the blockchain crate for the type a protocol-layer
\* decoder decodes
CounterpartOf(ty) == IF ty = "protocol::Block" THEN "Block" ELSE "BlockHeader"

\* C11: the Block and BlockHeader decoders of the protocol crate (block
\* module and packet module) reject a discriminant with InvalidSumtype
\* exactly when the decoder of the blockchain crate rejects it: 0 and 1 are
\* accepted by both, every other discriminant is rejected by both.
C11_SameDiscriminants ==
    (/\ dec_ty \in ProtocolSumTypes
     /\ dec_out # <<>>
     /\ HeadCode(dec_in) # None)
    => LET c == TheOne(HeadCode(dec_in))
       IN  IsErr(dec_out, "InvalidSumtype", c)
           <=> IsErr(Decode(CounterpartOf(dec_ty), dec_in), "InvalidSumtype", c)

\* the input is an array that holds the fields of a well-formed record of
\* its type and at least one element more
FieldsAndSurplus ==
    /\ dec_ty \in RecordTypes
    /\ dec_in[1] = "Array"
    /\ Len(dec_in[2]) > Len(ValidRecord(dec_ty)[2])
    /\ SubSeq(dec_in[2], 1, Len(ValidRecord(dec_ty)[2])) = ValidRecord(dec_ty)[2]

\* C12: for Version, BlockVersion, SoftwareVersion, HeaderExtraData, SlotId,
\* BodyProof, main Body, main Block, MainBlockHeader, genesis BlockHeader,
\* genesis Block and genesis Consensus, an array that holds the expected
\* fields and at least one element more fails with UnparsedValues.
C12_RecordStrictness ==
    (/\ dec_ty \in RecordTypes \ {"main::Consensus"}
     /\ dec_out # <<>>
     /\ FieldsAndSurplus)
    => IsErr(dec_out, "UnparsedValues", 0)

\* a genesis block followed by one more element has been refused
C12_Witness ==
    /\ dec_ty = "genesis::Block"
    /\ dec_in = VArray(ValidGenesisBlock[2] \o <<VU64(0)>>)
    /\ dec_out # <<>>
    /\ IsErr(dec_out, "UnparsedValues", 0)

\* C13: a main Consensus array that holds slot id, leader key, chain
\* difficulty and block signature and one element more fails with
\* UnparsedValues.
C13_ConsensusStrictness ==
    (/\ dec_ty = "main::Consensus"
     /\ dec_out # <<>>
     /\ FieldsAndSurplus)
    => IsErr(dec_out, "UnparsedValues", 0)

\* C14: every decode returns: a decoded value or a typed decode error,
\* never a panic; this holds in particular for a genesis or main Consensus
\* whose chain difficulty is an empty array.
C14_DecodeReturns ==
    dec_out # <<>> => dec_out[1] \in {"Ok", "Err"}

\* C15: HeaderHash::from_slice gives Some(h), h holding the bytes of the
\* slice, when the slice has 32 bytes and None when it has not, and a byte
\* string of another length decoded as a HeaderHash fails with
\* InvalidSize(32).
C15_HeaderHashSize ==
    (/\ dec_ty = "HeaderHash"
     /\ dec_out # <<>>
     /\ dec_in[1] = "Bytes")
    => /\ HeaderHash_from_slice(dec_in) = IF dec_in[2] = 32 THEN Some(dec_in) ELSE None
       /\ dec_in[2] # 32 => IsErr(dec_out, "InvalidSize", 32)
       /\ dec_in[2] = 32 => dec_out = Ok(dec_in)

\* a byte string of 33 bytes has been refused
C15_Witness ==
    /\ dec_ty = "HeaderHash"
    /\ dec_in = VBytes(33, 1)
    /\ dec_out # <<>>
    /\ IsErr(dec_out, "InvalidSize", 32)

\* the input is discriminant 0 and a sequence of well-formed headers,
\* possibly followed by more
HeadersOnWire ==
    /\ dec_ty = "BlockHeaderResponse"
    /\ dec_in[1] = "Array"
    /\ Len(dec_in[2]) >= 2
    /\ dec_in[2][1] = VU64(0)
    /\ dec_in[2][2][1] = "IArray"
    /\ \A i \in 1..Len(dec_in[2][2][2]) :
         IsOk(Decode("packet::BlockHeader", dec_in[2][2][2][i]))

\* the protocol magic of a header on the wire, and of a decoded header
WireMagic(v) == v[2][2][2][1][2]
DecodedMagic(h) == h[2][1][2][1]

\* C18: discriminant 0 followed by a sequence of n well-formed headers
\* decodes to BlockHeaderResponse::Ok holding n headers in wire order (one
\* for the test vector); with any element after the sequence the decode
\* fails with UnparsedValues.
C18_HeaderSequence ==
    (dec_out # <<>> /\ HeadersOnWire)
    => LET hs == dec_in[2][2][2]
       IN  IF Len(dec_in[2]) = 2
           THEN /\ IsOk(dec_out)
                /\ dec_out[2][1] = "Ok"
                /\ Len(dec_out[2][2][1]) = Len(hs)
                /\ \A i \in 1..Len(hs) :
                     DecodedMagic(dec_out[2][2][1][i]) = WireMagic(hs[i])
                /\ dec_in = GET_BLOCK_HEADER_VALUE => Len(dec_out[2][2][1]) = 1
           ELSE IsErr(dec_out, "UnparsedValues", 0)

\* two different headers have been decoded, in the order of the wire
C18_Witness ==
    /\ dec_ty = "BlockHeaderResponse"
    /\ dec_in = VArray(<<VU64(0), VIArray(<<WireHeader(1), WireHeader(0)>>)>>)
    /\ dec_out # <<>>
    /\ IsOk(dec_out)
    /\ DecodedMagic(dec_out[2][2][1][1]) = 1
    /\ DecodedMagic(dec_out[2][2][1][2]) = 0

\* the test vector has been decoded to one header
C18_TestVector ==
    /\ dec_ty = "BlockHeaderResponse"
    /\ dec_in = GET_BLOCK_HEADER_VALUE
    /\ dec_out # <<>>
    /\ IsOk(dec_out)
    /\ Len(dec_out[2][2][1]) = 1

----------------------------------------------------------------------------
\* Properties of encode (checked under SpecRoundTrip)

\* C16: for every Version, BlockVersion, SoftwareVersion, HeaderHash and
\* BlockHeaderAttributes x, decode(encode(x)) succeeds and gives x.
C16_LeafRoundTrip ==
    (dec_ty \in LeafEncTypes /\ dec_out # <<>>) => dec_out = Ok(dec_in)

\* a SoftwareVersion has been encoded and decoded back to itself
C16_Witness ==
    /\ dec_ty = "SoftwareVersion"
    /\ dec_in = <<"SoftwareVersion", <<1, 2>>>>
    /\ dec_out = Ok(dec_in)

\* C17: for every BlockHeader and BlockHeaderResponse x, encode(x) is the
\* array of the discriminant and the encoded payload, and decode(encode(x))
\* gives x.
C17_SumRoundTrip ==
    (dec_ty \in SumEncTypes /\ dec_out # <<>>)
    => /\ Encode(dec_ty, dec_in)[1] = "Array"
       /\ Len(Encode(dec_ty, dec_in)[2]) = 2
       /\ Encode(dec_ty, dec_in)[2][1] \in {VU64(0), VU64(1)}
       /\ dec_out = Ok(dec_in)

----------------------------------------------------------------------------
\* Properties of the request constructors (checked under SpecSend)

\* C19: send_msg_getheaders(froms, to) gives tag 0x04 and the payload
\* [indefinite array of the from hashes, as many and in the order given;
\* array of the to hash when there is one, empty array when there is none].
C19_GetHeadersPayload ==
    (dec_ty = "send_msg_getheaders" /\ dec_out # <<>>)
    => LET froms == dec_in[1]
           to == dec_in[2]
           payload == dec_out[2][2]
       IN  /\ dec_out[1] = 4
           /\ payload[1] = "Array"
           /\ Len(payload[2]) = 2
           /\ payload[2][1][1] = "IArray"
           /\ Len(payload[2][1][2]) = Len(froms)
           /\ \A i \in 1..Len(froms) : payload[2][1][2][i] = <<"Bytes", 32, froms[i][3]>>
           /\ payload[2][2][1] = "Array"
           /\ payload[2][2][2] = IF to = None THEN <<>>
                                 ELSE <<(<<"Bytes", 32, TheOne(to)[3]>>)>>

\* a request from two different hashes, with a to hash, has been built
C19_Witness ==
    /\ dec_ty = "send_msg_getheaders"
    /\ Len(dec_in[1]) = 2
    /\ dec_in[1][1] # dec_in[1][2]
    /\ dec_in[2] # None
    /\ dec_out # <<>>

\* a request from no hash and to no hash has been built
C19_EmptyReached ==
    /\ dec_ty = "send_msg_getheaders"
    /\ dec_in = <<(<<>>), None>>
    /\ dec_out # <<>>

\* the message type each constructor builds
MsgTypeOf(fn) ==
    CASE fn = "send_msg_subscribe" -> "MsgSubscribe"
      [] fn = "send_msg_getheaders" -> "MsgGetHeaders"
      [] fn = "send_msg_getblocks" -> "MsgGetBlocks"

\* C20: each constructor emits the tag MsgType::to_u8 gives its message
\* type: 0x0E for subscribe (payload 43 with keep_alive, 42 without), 0x04
\* for getheaders, 0x06 for getblocks (payload [from, to]); the three tags
\* differ.
C20_TagsOfConstructors ==
    dec_out # <<>>
    => /\ dec_out[1] = MsgType_to_u8(MsgTypeOf(dec_ty))
       /\ dec_ty = "send_msg_subscribe"
            => /\ dec_out[1] = 14
               /\ dec_out[2][2] = <<"U64", IF dec_in[1] THEN 43 ELSE 42>>
       /\ dec_ty = "send_msg_getheaders" => dec_out[1] = 4
       /\ dec_ty = "send_msg_getblocks"
            => /\ dec_out[1] = 6
               /\ dec_out[2][2] = <<"Array", <<dec_in[1], dec_in[2]>>>>
       /\ Cardinality({MsgType_to_u8(t) :
                         t \in {"MsgSubscribe", "MsgGetHeaders", "MsgGetBlocks"}}) = 3

\* a getblocks request between two different hashes has been built
C20_Witness ==
    /\ dec_ty = "send_msg_getblocks"
    /\ dec_in[1] # dec_in[2]
    /\ dec_out # <<>>
    /\ dec_out[1] = 6

----------------------------------------------------------------------------
\* Properties of the scan over every batch (checked under SpecScan)

\* the 0-based indices of the batch whose header is of the target epoch
OfEpoch(hdrs, epoch_id) == {i \in 0..(Len(hdrs) - 1) : hdrs[i + 1].epoch = epoch_id}
MinOf(S) == CHOOSE x \in S : \A y \in S : x <= y

\* a scanned batch that is not empty and is not fast-skipped
ScannedNotSkipped ==
    /\ scan_out.status # "idle"
    /\ Len(scan_hdrs) > 0
    /\ scan_hdrs[1].epoch >= scan_epoch

\* what C21 says of the scan's result
ScanAsClaimed ==
    /\ scan_out.status = "ok"
    /\ OfEpoch(scan_hdrs, scan_epoch) # {}
    /\ scan_out.start = MinOf(OfEpoch(scan_hdrs, scan_epoch))
    /\ scan_out.end = MaxOf(OfEpoch(scan_hdrs, scan_epoch))
    /\ scan_out.boundary = IF scan_out.start > 0
                           THEN Some(compute_hash(scan_hdrs[scan_out.start]))
                           ELSE None

\* C21: for every non-empty batch whose first header is not of an epoch
\* below the target, the scan yields start = the first index and end = the
\* last index whose epoch is the target, and the boundary is set, to the hash
\* of the header at start - 1, exactly when start > 0.
C21_ScanGeneral == ScannedNotSkipped => ScanAsClaimed

\* the batch is newest first and has a header of the target epoch
NewestFirst(hdrs) == \A i \in 1..(Len(hdrs) - 1) : hdrs[i].epoch >= hdrs[i + 1].epoch

\* C21 for the batches that are ordered newest first and hold a header of
\* the target epoch
C21_ScanNewestFirst ==
    (/\ ScannedNotSkipped
     /\ NewestFirst(scan_hdrs)
     /\ OfEpoch(scan_hdrs, scan_epoch) # {})
      => ScanAsClaimed

\* a batch [6,5,5,4] scanned for epoch 5: start = 1, end = 2, boundary set
C21_NewestFirstReached ==
    /\ ScannedNotSkipped
    /\ Epochs(scan_hdrs) = <<6, 5, 5, 4>>
    /\ scan_epoch = 5
    /\ scan_out.start = 1
    /\ scan_out.end = 2
    /\ scan_out.boundary # None

\* a batch of headers that are all of epochs after the target
C21_AllLaterReached ==
    /\ ScannedNotSkipped
    /\ Epochs(scan_hdrs) = <<6, 6>>
    /\ scan_epoch = 5
    /\ scan_out.status = "panic"

----------------------------------------------------------------------------
\* Properties of one iteration of download_epoch (checked under Spec)

\* this step is the iteration's handling of the batch reply
HandlesReply(reply) == pc = "headers" /\ GetHeadersReply(reply)

\* a request was made (it is in flight, or it failed) only with the check
\* of line 108 passed
C22_Requested ==
    /\ pc = "blocks" => req_range # <<>>
    /\ req_range # <<>>
         => /\ pc \in {"blocks", "aborted"}
            /\ HeaderOf[req_range[1]].prev = previous_headerhash
            /\ blocks_raw = <<>>

C22_Step ==
    \A reply \in HeaderBatches :
      (HandlesReply(reply) /\ Scan(reply, download_epoch_id).status = "ok")
        => LET s == Scan(reply, download_epoch_id)
               first == reply[s.end + 1]
               latest == reply[s.start + 1]
           IN  /\ writer' = writer
               /\ blocks_raw' = <<>>
               /\ IF first.prev = previous_headerhash
                  THEN /\ pc' = "blocks"
                       /\ req_range' = <<compute_hash(first), compute_hash(latest)>>
                  ELSE /\ pc' = "aborted"
                       /\ req_range' = <<>>

\* C22: in an iteration that is not fast-skipped a block request is in
\* flight only after the header at index end was found to have
\* previous_header equal to previous_headerhash; on a mismatch the run aborts
\* with no block requested and none appended; the range requested is from
\* hash(headers[end]) to hash(headers[start]).
C22_RequestAfterCheck == []C22_Requested /\ [][C22_Step]_vars

\* the request of a second iteration, for a range of two different headers
C22_Witness ==
    /\ pc = "blocks"
    /\ Len(writer) > 0
    /\ req_range # <<>>
    /\ req_range[1] # req_range[2]

\* the batch is fast-skipped: its first header is of an epoch before epoch_id
Stale(reply) == Len(reply) > 0 /\ reply[1].epoch < download_epoch_id

\* C23: when the first header of the batch is of an epoch below epoch_id,
\* the iteration sets start_hash to that header's hash and goes back to the
\* header request, with no block requested, none appended, and
\* previous_headerhash, expected_slotid and found_epoch_boundary unchanged.
C23_FastSkip ==
    [][\A reply \in HeaderBatches :
         (HandlesReply(reply) /\ Stale(reply))
           => /\ start_hash' = compute_hash(reply[1])
              /\ pc' = "headers"
              /\ req_range' = <<>>
              /\ blocks_raw' = <<>>
              /\ UNCHANGED <<writer, previous_headerhash, expected_slotid,
                             found_epoch_boundary, storeVars>>
      ]_vars

\* a batch was skipped: the cursor moved and no block was accepted
C23_Witness ==
    /\ pc = "headers"
    /\ download_epoch_id = 1
    /\ start_hash # previous_headerhash
    /\ HeaderOf[start_hash].epoch < download_epoch_id
    /\ writer = <<>>

----------------------------------------------------------------------------
\* download_epoch against a peer that serves the chain 1 <- 2 <- ... <- 6

\* the hashes of the chain the peer serves, oldest first
ServedChain == <<1, 2, 3, 4, 5, 6>>

\* the tips the peer may report: the blocks of the epochs after the first
ServedTips == {h \in 1..Len(ServedChain) : HeaderOf[ServedChain[h]].epoch > EpochStart}

\* the reply to GetHeaders(from, tip): the k headers that follow from on the
\* chain towards tip, newest first
ServedHeaders(from, k) == [i \in 1..k |-> HeaderOf[ServedChain[from + k + 1 - i]]]

\* the reply to GetBlocks(from, to): the blocks from from to to, oldest first
ServedBlocks(from, to) == [i \in 1..(to - from + 1) |-> Raw(HeaderOf[ServedChain[from + i - 1]], TRUE)]

\* the hashes download_epoch(epoch_id, ..) may start from: the genesis hash
\* and the blocks of the chain before the epoch
StartsBefore(epoch_id) ==
    {GenesisHash} \cup {h \in 1..Len(ServedChain) : HeaderOf[ServedChain[h]].epoch < epoch_id}

\* lines 74-117 with the reply of the serving peer
ServedGetHeaders ==
    /\ pc = "headers"
    /\ UNCHANGED <<storeVars, network_tip, tip_epoch, download_epoch_id,
                   download_start_hash, x_start_hash, writer,
                   previous_headerhash, expected_slotid, blocks_raw,
                   histVars, scanVars, decVars>>
    /\ \E k \in 1..MaxHeaders :
         /\ start_hash + k <= network_tip
         /\ GetHeadersReply(ServedHeaders(start_hash, k))

\* lines 116-121 with the reply of the serving peer
ServedGetBlocks ==
    /\ pc = "blocks"
    /\ UNCHANGED <<storeVars, network_tip, tip_epoch, download_epoch_id,
                   download_start_hash, x_start_hash, start_hash,
                   found_epoch_boundary, writer, previous_headerhash,
                   expected_slotid, histVars, scanVars, decVars>>
    /\ pc' = "append"
    /\ req_range' = <<>>
    /\ blocks_raw' = ServedBlocks(req_range[1], req_range[2])

\* lines 168-170 when the storage accepts the pack
StoredCommitPack ==
    /\ pc = "commit"
    /\ UNCHANGED <<tags, head_tag, network_tip, tip_epoch, download_epoch_id,
                   download_start_hash, epochVars, histVars, scanVars,
                   decVars>>
    /\ pc' = "tag"
    /\ packs' = packs \cup {writer}

\* a call download_epoch(epoch_id, start, tip) has just been entered
InitLive ==
    /\ InitScanIdle
    /\ InitDecIdle
    /\ tags = <<>>
    /\ packs = {}
    /\ head_tag = None
    /\ pc = "headers"
    /\ network_tip \in ServedTips
    /\ tip_epoch = HeaderOf[ServedChain[network_tip]].epoch
    /\ download_epoch_id \in {e \in 0..tip_epoch : e < tip_epoch}
    /\ download_start_hash \in StartsBefore(download_epoch_id)
    /\ x_start_hash = download_start_hash
    /\ start_hash = download_start_hash
    /\ found_epoch_boundary = None
    /\ writer = <<>>
    /\ previous_headerhash = download_start_hash
    /\ expected_slotid = 0
    /\ req_range = <<>>
    /\ blocks_raw = <<>>
    /\ calls = <<[epoch |-> download_epoch_id, start |-> download_start_hash,
                  ret |-> None]>>
    /\ returned = <<>>
    /\ tags0 = <<>>
    /\ written = {}
    /\ resumed = FALSE
    /\ last = NoLast

NextLive ==
    \/ ServedGetHeaders
    \/ ServedGetBlocks
    \/ ProcessBlock
    \/ EndBlocks
    \/ StoredCommitPack
    \/ WriteTag
    \/ SyncLoop

\* the engine is sequential and every request blocks until the peer answers:
\* a step that can be taken is taken
SpecLive == InitLive /\ [][NextLive]_vars /\ WF_vars(NextLive)

----------------------------------------------------------------------------
\* Properties of download_epoch against the serving peer (checked under
\* SpecLive)

\* the call the behaviour started in has returned with its epoch committed
FirstCallReturned ==
    /\ calls[1].ret # None
    /\ calls[1].epoch \in DOMAIN tags

\* C24: download_epoch returns only in an iteration that found the epoch
\* boundary, and against a peer that serves a valid chain whose tip is of an
\* epoch after epoch_id it eventually returns with epoch_id committed, from
\* every start hash that precedes the epoch on the chain.
C24_ReturnsCommitted ==
    /\ [][returned' # returned => (pc = "tag" /\ found_epoch_boundary # None)]_vars
    /\ <>FirstCallReturned

\* the part of C24 that is about every return
C24_ReturnOnlyWithBoundary ==
    [][returned' # returned => (pc = "tag" /\ found_epoch_boundary # None)]_vars

\* a call that skipped a batch and then stopped at the check of line 108
C24_AbortAfterSkipReached ==
    /\ pc = "aborted"
    /\ calls[1].ret = None
    /\ writer = <<>>
    /\ start_hash # previous_headerhash
    /\ found_epoch_boundary = None

\* a call that stopped on a batch of headers that are all of later epochs
C24_AbortOnLaterBatchReached ==
    /\ pc = "aborted"
    /\ calls[1].ret = None
    /\ start_hash = previous_headerhash
    /\ found_epoch_boundary # None

\* a call that returned with its epoch committed
C24_ReturnedReached == FirstCallReturned /\ Len(tags[calls[1].epoch]) = 3

----------------------------------------------------------------------------
\* find_earliest_epoch, one round of its loop at a time

\* the largest epoch of SpecFind
MaxEpoch == 3

\* the tags a storage may hold: any set of epochs, each naming its own pack
FindStorages ==
    {[e \in S |-> <<Raw(HeaderOf[e + 1], TRUE)>>] : S \in SUBSET (0..MaxEpoch)}

\* line 41
InitFind ==
    /\ InitSyncIdle
    /\ InitScanIdle
    /\ dec_ty = "find_earliest_epoch"
    /\ dec_in \in [storage : FindStorages, minimum_epochid : 0..MaxEpoch,
                   start_epochid : 0..MaxEpoch]
    /\ dec_out = [epoch_id |-> dec_in.start_epochid, probed |-> <<>>,
                  running |-> TRUE, ret |-> None]

\* lines 42-56: one round of the loop
FindProbe ==
    /\ dec_out.running
    /\ LET epoch_id == dec_out.epoch_id
           h == ReadEpochTag(dec_in.storage, epoch_id)
           probed == Append(dec_out.probed, epoch_id)
       IN  dec_out' =
             IF h # None
             THEN [epoch_id |-> epoch_id, probed |-> probed, running |-> FALSE,
                   ret |-> Some(<<epoch_id, TheOne(h)>>)]
             ELSE IF epoch_id > dec_in.minimum_epochid
             THEN [epoch_id |-> epoch_id - 1, probed |-> probed,
                   running |-> TRUE, ret |-> None]
             ELSE [epoch_id |-> epoch_id, probed |-> probed, running |-> FALSE,
                   ret |-> None]
    /\ UNCHANGED <<storeVars, syncVars, epochVars, histVars, scanVars,
                   dec_ty, dec_in>>

NextFind == FindProbe

\* the loop has no blocking call: a round that can run does run
SpecFind == InitFind /\ [][NextFind]_vars /\ WF_vars(NextFind)

----------------------------------------------------------------------------
\* Properties of find_earliest_epoch (checked under SpecFind)

\* the epochs of the range [minimum, start] that have a tag
TaggedInRange ==
    {e \in DOMAIN dec_in.storage :
       dec_in.minimum_epochid <= e /\ e <= dec_in.start_epochid}

FindAsClaimed ==
    /\ dec_out.epoch_id >= 0
    /\ \A i \in 1..Len(dec_out.probed) :
         dec_out.probed[i] = dec_in.start_epochid - (i - 1)
    /\ ~dec_out.running
         => /\ dec_out.ret =
                 IF TaggedInRange = {} THEN None
                 ELSE Some(<<MaxOf(TaggedInRange),
                             dec_in.storage[MaxOf(TaggedInRange)]>>)
            /\ dec_out.ret # None
                 => TheOne(dec_out.ret)[1] >= dec_in.minimum_epochid
            /\ dec_out.ret = find_earliest_epoch(dec_in.storage,
                   dec_in.minimum_epochid, dec_in.start_epochid)

\* C25: find_earliest_epoch terminates on every input without taking the
\* epoch counter below zero, probes the epochs downwards from start, and
\* returns the greatest epoch of [minimum, start] that has a tag, with its
\* pack, or None when no epoch of that range has one; it returns no epoch
\* below minimum.
C25_FindEarliest == []FindAsClaimed /\ <>(~dec_out.running)

\* C25 for the inputs with minimum <= start
C25_FindEarliestOrdered ==
    /\ [](dec_in.minimum_epochid <= dec_in.start_epochid => FindAsClaimed)
    /\ <>(~dec_out.running)

\* the search went down two epochs and found a tag above the minimum
C25_FoundReached ==
    /\ ~dec_out.running
    /\ Len(dec_out.probed) = 3
    /\ dec_out.ret # None
    /\ dec_in.minimum_epochid = 0

\* start is below minimum and has a tag
C25_BelowMinimumReached ==
    /\ ~dec_out.running
    /\ dec_in.start_epochid < dec_in.minimum_epochid
    /\ dec_out.ret # None

----------------------------------------------------------------------------
\* Properties of the blocks appended (checked under Spec)

\* C26: the slot ids of the blocks in the pack writer of a call are strictly
\* increasing in the order of their append.
C26_SlotsIncrease ==
    \A i \in 1..Len(writer) : \A j \in 1..Len(writer) :
       i < j => writer[i].hdr.slotid < writer[j].hdr.slotid

\* two blocks of one epoch, hash-chained, both of slot 0, were appended
C26_SameSlotReached ==
    /\ Len(writer) = 2
    /\ writer[2].hdr.prev = compute_hash(writer[1].hdr)
    /\ writer[1].hdr.slotid = 0
    /\ writer[2].hdr.slotid = 0

----------------------------------------------------------------------------
\* wallet-crypto bip44: sequential addressing

\* 0x80000000, half of the range of the scaled u32
BIP44_SOFT_UPPER_BOUND == (U32Max + 1) \div 2

\* the longest chunk asked of next_chunks
MaxChunk == 3

\* Addressing::incr (lines 200-205).  checked says whether the build traps
\* integer overflow (it panics) or not (the sum wraps).
Addressing_incr(self, incr, checked) ==
    IF incr >= BIP44_SOFT_UPPER_BOUND THEN Err("IndexOutOfBound", incr)
    ELSE IF self.index + incr > U32Max /\ checked
    THEN Panic("attempt to add with overflow")
    ELSE Ok([self EXCEPT !.index = (self.index + incr) % (U32Max + 1)])

\* the loop of Addressing::next_chunks (lines 215-221), from round i
RECURSIVE next_chunks_from(_, _, _, _, _)
next_chunks_from(self, chunk_size, checked, i, v) ==
    IF i >= chunk_size THEN Ok(v)
    ELSE LET r == Addressing_incr(self, i, checked) IN
         IF IsOk(r)
         THEN next_chunks_from(self, chunk_size, checked, i + 1, Append(v, r[2]))
         ELSE IF r[1] = "Err" /\ r[2] = "IndexOutOfBound" THEN Ok(v)
         ELSE r

\* Addressing::next_chunks (lines 213-223)
Addressing_next_chunks(self, chunk_size, checked) ==
    next_chunks_from(self, chunk_size, checked, 0, <<>>)

\* the Addressing values the constructors give: a hard account, a soft
\* change and a soft index (lines 136-148, 163-183)
ValidAddressings ==
    [account : {BIP44_SOFT_UPPER_BOUND, U32Max}, change : {0, 1},
     index : 0..(BIP44_SOFT_UPPER_BOUND - 1)]

InitBip44 ==
    /\ InitSyncIdle
    /\ InitScanIdle
    /\ dec_ty = "Addressing"
    /\ dec_in \in [self : ValidAddressings, arg : {0}]
    /\ dec_out = dec_in.self

\* addr = addr.incr(n): dec_out is the Addressing held, dec_in the last call
DoIncr ==
    /\ dec_ty \in {"Addressing", "incr"}
    /\ \E n \in 0..U32Max : \E checked \in BOOLEAN :
         LET r == Addressing_incr(dec_out, n, checked) IN
         /\ IsOk(r)
         /\ dec_ty' = "incr"
         /\ dec_in' = [self |-> dec_out, arg |-> n]
         /\ dec_out' = r[2]
    /\ UNCHANGED <<storeVars, syncVars, epochVars, histVars, scanVars>>

\* addr.incr(n) that fails, and addr.next_chunks(n): dec_out is the result
DoCall ==
    /\ dec_ty \in {"Addressing", "incr"}
    /\ \E n \in 0..U32Max : \E checked \in BOOLEAN :
         \/ /\ ~IsOk(Addressing_incr(dec_out, n, checked))
            /\ dec_ty' = "incr failed"
            /\ dec_in' = [self |-> dec_out, arg |-> n]
            /\ dec_out' = Addressing_incr(dec_out, n, checked)
         \/ /\ n <= MaxChunk
            /\ dec_ty' = "next_chunks"
            /\ dec_in' = [self |-> dec_out, arg |-> n]
            /\ dec_out' = Addressing_next_chunks(dec_out, n, checked)
    /\ UNCHANGED <<storeVars, syncVars, epochVars, histVars, scanVars>>

NextBip44 ==
    \/ DoIncr
    \/ DoCall

SpecBip44 == InitBip44 /\ [][NextBip44]_vars

----------------------------------------------------------------------------
\* Properties of bip44 (checked under SpecBip44)

\* C27: after any sequence of successful incr calls from a valid Addressing
\* the index is below 0x80000000, and so is the index of every element
\* next_chunks returns; an increment that would reach or pass the bound
\* fails with IndexOutOfBound, and the index never overflows.
C27_SoftRange ==
    /\ dec_ty \in {"Addressing", "incr"}
         => dec_out.index < BIP44_SOFT_UPPER_BOUND
    /\ dec_ty = "incr"
         => dec_in.self.index + dec_in.arg < BIP44_SOFT_UPPER_BOUND
    /\ dec_ty = "incr failed"
         => /\ dec_out[1] = "Err"
            /\ dec_out[2] = "IndexOutOfBound"
    /\ dec_ty = "next_chunks"
         => /\ dec_out[1] = "Ok"
            /\ \A i \in 1..Len(dec_out[2]) :
                 dec_out[2][i].index < BIP44_SOFT_UPPER_BOUND

\* what incr does check: a step of 0x80000000 or more fails with
\* IndexOutOfBound, and a successful incr adds its step to the index
C27_StepChecked ==
    /\ dec_ty = "incr"
         => /\ dec_in.arg < BIP44_SOFT_UPPER_BOUND
            /\ dec_out.index = (dec_in.self.index + dec_in.arg) % (U32Max + 1)
    /\ (dec_ty = "incr failed" /\ dec_in.arg >= BIP44_SOFT_UPPER_BOUND)
         => dec_out = Err("IndexOutOfBound", dec_in.arg)

\* incr(1) on the last soft index succeeded with index 0x80000000
C27_HardIndexReached ==
    /\ dec_ty = "incr"
    /\ dec_in.self.index = BIP44_SOFT_UPPER_BOUND - 1
    /\ dec_in.arg = 1
    /\ dec_out.index = BIP44_SOFT_UPPER_BOUND

\* next_chunks returned an element with a hard index
C27_HardChunkReached ==
    /\ dec_ty = "next_chunks"
    /\ dec_in.self.index < BIP44_SOFT_UPPER_BOUND
    /\ dec_out[1] = "Ok"
    /\ \E i \in 1..Len(dec_out[2]) : dec_out[2][i].index >= BIP44_SOFT_UPPER_BOUND

\* the index overflowed the u32
C27_OverflowReached ==
    /\ dec_ty = "incr failed"
    /\ dec_out[1] = "Panic"

----------------------------------------------------------------------------
\* Properties of the header cursor (checked under Spec)

\* C28: at every header request of download_epoch, also one that follows a
\* fast skip, start_hash is previous_headerhash: the hash of the last block
\* accepted, or the start hash of the call when none was.
C28_CursorIsLastAccepted ==
    pc = "headers"
      => /\ start_hash = previous_headerhash
         /\ previous_headerhash = IF writer = <<>> THEN x_start_hash
                                  ELSE compute_hash(writer[Len(writer)].hdr)

\* C28 for the requests that do not follow a fast skip; after a fast skip
\* the cursor is the hash of the skipped batch's first header, of an epoch
\* before epoch_id, and previous_headerhash still is the hash of the last
\* block accepted, or the start hash of the call.
C28_CursorUnlessSkipped ==
    pc = "headers"
      => /\ \/ start_hash = previous_headerhash
            \/ /\ start_hash \in DOMAIN HeaderOf
               /\ HeaderOf[start_hash].epoch < download_epoch_id
         /\ previous_headerhash = IF writer = <<>> THEN x_start_hash
                                  ELSE compute_hash(writer[Len(writer)].hdr)

\* a header request after a batch of blocks was accepted
C28_SecondRequestReached ==
    /\ pc = "headers"
    /\ Len(writer) = 2
    /\ start_hash = previous_headerhash
    /\ start_hash # x_start_hash

\* a header request after a block was accepted and a later batch skipped
C28_SkipAfterAcceptReached ==
    /\ pc = "headers"
    /\ Len(writer) > 0
    /\ start_hash # previous_headerhash
    /\ previous_headerhash = compute_hash(writer[Len(writer)].hdr)

----------------------------------------------------------------------------
\* Properties of the scan's indices (checked under SpecScan)

\* every header of the batch is of an epoch after the target
AllLater(hdrs, epoch_id) == \A i \in 1..Len(hdrs) : hdrs[i].epoch > epoch_id

\* C29: for every batch, the empty one and the ones of later epochs only
\* included, the scan reads no index outside the batch: len - 1 is not
\* computed for len = 0, and 0 <= start <= end <= len - 1.
C29_IndicesInBatch ==
    scan_out.status # "idle"
      => /\ scan_out.status # "panic"
         /\ scan_out.status = "ok"
              => /\ 0 <= scan_out.start
                 /\ scan_out.start <= scan_out.end
                 /\ scan_out.end <= Len(scan_hdrs) - 1

\* C29 for the batches that are not empty and hold a header that is not of
\* a later epoch; the others, and only they, stop the scan
C29_IndicesUnlessEmptyOrLater ==
    scan_out.status # "idle"
      => /\ scan_out.status = "panic"
              <=> (Len(scan_hdrs) = 0 \/ AllLater(scan_hdrs, scan_epoch))
         /\ scan_out.status = "ok"
              => /\ 0 <= scan_out.start
                 /\ scan_out.start <= scan_out.end
                 /\ scan_out.end <= Len(scan_hdrs) - 1

\* the empty batch was scanned
C29_EmptyReached ==
    /\ scan_out.status = "panic"
    /\ scan_hdrs = <<>>

\* a batch of three headers of later epochs was scanned: start = 3 = len
C29_PastEndReached ==
    /\ scan_out.status = "panic"
    /\ Len(scan_hdrs) = 3
    /\ scan_out.start = 3
    /\ scan_out.end = 2

----------------------------------------------------------------------------
\* Properties of the packs of chained calls (checked under Spec)

\* the hashes of the blocks of a pack, in the order of their append
HashesOf(pack) == [i \in 1..Len(pack) |-> compute_hash(pack[i].hdr)]
InPack(h, pack) == \E i \in 1..Len(pack) : HashesOf(pack)[i] = h

\* the pack of the i-th call of this invocation: the one committed for its
\* epoch once it returned, the open writer while it runs
PackOfCall(i) ==
    IF calls[i].ret # None THEN tags[calls[i].epoch]
    ELSE IF i = Len(calls) THEN writer ELSE <<>>

\* C30: over the chained calls of an invocation, the block whose hash a call
\* returned as epoch boundary is neither in the pack committed for that
\* epoch nor in the pack of the next epoch, downloaded from that hash; every
\* block appended is in one pack only, once.
C30_BoundaryInNoPack ==
    /\ \A i \in 1..Len(calls) :
         calls[i].ret # None
           => /\ ~InPack(TheOne(calls[i].ret), PackOfCall(i))
              /\ i < Len(calls)
                   => /\ calls[i + 1].start = TheOne(calls[i].ret)
                      /\ ~InPack(TheOne(calls[i].ret), PackOfCall(i + 1))
    /\ \A i \in 1..Len(calls) : \A j \in 1..Len(calls) :
         \A k \in 1..Len(PackOfCall(i)) : \A l \in 1..Len(PackOfCall(j)) :
            HashesOf(PackOfCall(i))[k] = HashesOf(PackOfCall(j))[l]
              => (i = j /\ k = l)

\* two chained calls committed their packs, the first of three blocks
C30_Witness ==
    /\ Len(calls) = 2
    /\ calls[1].ret # None
    /\ calls[2].ret # None
    /\ Len(PackOfCall(1)) = 3
    /\ Len(PackOfCall(2)) > 0
    /\ calls[2].start = TheOne(calls[1].ret)

====
